---- MODULE Spec2Model ----
(***************************************************************************)
(* The text-to-SQL pipeline of the repository as state machines:           *)
(*   - Spec: VannaTextToSqlAgent.process_question (agent/vanna_agent.py)   *)
(*     and the /api/query handlers of main.py, main_vanna2.py and          *)
(*     main_vanna2_full.py;                                                *)
(*   - SpecConv: PostgresConversationStore (conversation/...);             *)
(*   - SpecSql: PostgresSqlRunner.run_sql (tools/sql_tool.py);             *)
(*   - SpecMem: PgVectorAgentMemory (memory/pgvector_memory.py) and the    *)
(*     prompt assembly.                                                    *)
(* Text is a sequence of tokens; a Python None is the record NoneV and a   *)
(* Python str is Str(tokens), so that a field can hold either.             *)
(***************************************************************************)
EXTENDS Integers, Sequences, FiniteSets, TLC

VARIABLES
    handler,          \* which entry point runs: "agent", "query", "main" or "full"
    pc,               \* position of the running handler
    question,         \* the question of the running request
    user_context,     \* the user id carried by the request ("" = none)
    user,             \* user.id as resolved by the resolver
    context,          \* RAG context built so far
    response,         \* what llm.generate returned
    tcIdx,            \* index of the tool call the for-loop is at
    sql,              \* local variable sql
    result,           \* local variable result / the value returned
    escaped,          \* an exception left the handler
    raisedBy,         \* ghost: the call that raised in this request ("" = none)
    execLog,          \* run_sql results obtained in this request, in order
    llmCalls,         \* llm.generate calls of this request
    embedCalls,       \* embedding_service.embed calls of this request
    saveCalls,        \* save_tool_usage invocations, all requests
    okExecs,          \* run_sql results without 'error', all requests
    nRequests,        \* requests started
    toolMemory,       \* rows of vanna_tool_memory
    req_conversation_id,  \* request.conversation_id ("" = none)
    conversation_id,      \* local variable conversation_id
    conversation_history, \* local variable conversation_history
    conversations,    \* table conversations: id -> row or NoRow
    messages,         \* table conversation_messages, in insertion order
    nextMsgId,        \* SERIAL of conversation_messages.id
    now,              \* database clock NOW()
    ret,              \* last value returned by a conversation-store call
    pool,             \* PostgresSqlRunner.pool
    lastRun,          \* the last PostgresSqlRunner.run_sql call: input, SQL sent, outcome
    tables,           \* vanna_ddl, vanna_documentation, vanna_sql_examples, vanna_text_memory
    memRet,           \* the last PgVectorAgentMemory call and what it returned
    memPrev,          \* the call before it, if no write came in between
    toolCall,         \* the last Tool.execute call: its arguments and what its collaborators did
    toolRet,          \* what that call returned, and whether it called the LLM
    sessions,         \* the concurrent requests: where each is in its database call
    completed         \* ghost: the calls of the concurrent requests that have returned

vars == <<handler, pc, question, user_context, user, context, response, tcIdx,
          sql, result, escaped, raisedBy, execLog, llmCalls, embedCalls,
          saveCalls, okExecs, nRequests, toolMemory, req_conversation_id,
          conversation_id, conversation_history, conversations, messages,
          nextMsgId, now, ret, pool, lastRun, tables, memRet, memPrev,
          toolCall, toolRet, sessions, completed>>

agentVars == <<handler, pc, question, user_context, user, context, response,
               tcIdx, sql, result, escaped, raisedBy, execLog, llmCalls,
               embedCalls, saveCalls, okExecs, nRequests, toolMemory,
               req_conversation_id, conversation_id, conversation_history>>

storeVars == <<conversations, messages, nextMsgId, now>>

runnerVars == <<pool, lastRun>>

memoryVars == <<tables, memRet, memPrev>>

toolVars == <<toolCall, toolRet>>

concVars == <<sessions, completed>>

extraVars == <<toolCall, toolRet, sessions, completed>>

----------------------------------------------------------------------------
(* Bounds *)

MaxQuestions == 2
MaxQueryRequests == 1
MaxMsgs == 3
MaxTime == 1

----------------------------------------------------------------------------
(* Values *)

NoneV == [kind |-> "None"]
Str(t) == [kind |-> "str", v |-> t]

\* Tokens of a text.  "w" is a word with no back-tick, no semicolon, no
\* white space and no occurrence of "select" in any letter case.
\* "NL" is a line feed; "FENCE" is three back-ticks, "FENCEsql" and "FENCESQL"
\* are three back-ticks followed by sql and by SQL.
WS == {" ", "NL"}
FenceTokens == {"FENCEsql", "FENCESQL", "FENCE"}

SelectTokens == {"SELECT", "select"}

\* "I can only execute SELECT queries."  (vanna_agent.py line 161)
RefusalText == <<"w", " ", "SELECT", " ", "w">>
\* "I can only answer questions related to the data ..."  (line 159)
OutOfScopeText == <<"w", " ", "w">>
FencedSqlText == <<"w", "NL", "FENCEsql", "NL", "SELECT", " ", "w", "NL", "FENCE", "NL", "w">>
BareSelectText == <<"w", "NL", "select", " ", "w", ";", "NL", "w">>
UpperFenceText == <<"FENCESQL", "NL", "w", "NL", "FENCE">>
EmptyFenceText == <<"w", "FENCEsql", " ", "FENCE", "SELECT">>

Sql1 == <<"SELECT", " ", "w">>
Sql2 == <<"w", " ", "w">>

Q1 == <<"w">>
Q2 == <<"w", " ", "w">>
Questions == {Q1, Q2}

----------------------------------------------------------------------------
(* Text operations, on tokens *)

Contains(text, S) == \E i \in 1..Len(text) : text[i] \in S

RECURSIVE FirstIn(_, _, _)
\* least index >= i of a token of S, or Len(text) + 1
FirstIn(text, S, i) ==
    IF i > Len(text) THEN Len(text) + 1
    ELSE IF text[i] \in S THEN i
    ELSE FirstIn(text, S, i + 1)

RECURSIVE Split(_, _)
\* str.split(sep) for a separator that is one of the tokens of seps
Split(text, seps) ==
    LET i == FirstIn(text, seps, 1) IN
    IF i > Len(text) THEN <<text>>
    ELSE <<SubSeq(text, 1, i - 1)>> \o Split(SubSeq(text, i + 1, Len(text)), seps)

RECURSIVE LStrip(_)
LStrip(text) ==
    IF text # <<>> /\ Head(text) \in WS THEN LStrip(Tail(text)) ELSE text

RECURSIVE RStrip(_)
RStrip(text) ==
    IF text # <<>> /\ text[Len(text)] \in WS
    THEN RStrip(SubSeq(text, 1, Len(text) - 1))
    ELSE text

Strip(text) == RStrip(LStrip(text))

RECURSIVE Join(_)
\* "\n".join(lines)
Join(lines) ==
    IF lines = <<>> THEN <<>>
    ELSE IF Len(lines) = 1 THEN lines[1]
    ELSE lines[1] \o <<"NL">> \o Join(Tail(lines))

RECURSIVE ScanLines(_, _, _, _)
\* the for-loop of _extract_sql_from_text
ScanLines(lines, i, in_sql, sql_lines) ==
    IF i > Len(lines) THEN sql_lines
    ELSE LET line == lines[i]
             in2 == in_sql \/ Contains(line, SelectTokens)
         IN  IF in2
             THEN IF Contains(line, {";"})
                  THEN Append(sql_lines, line)
                  ELSE ScanLines(lines, i + 1, TRUE, Append(sql_lines, line))
             ELSE ScanLines(lines, i + 1, FALSE, sql_lines)

extract_sql_from_text(text) ==
    IF Contains(text, {"FENCEsql", "FENCESQL"}) /\ Len(Split(text, {"FENCEsql"})) > 1
    THEN Strip(Split(Split(text, {"FENCEsql"})[2], FenceTokens)[1])
    ELSE IF Contains(text, SelectTokens)
    THEN Strip(Join(ScanLines(Split(text, {"NL"}), 1, FALSE, <<>>)))
    ELSE <<>>

----------------------------------------------------------------------------
(* Collaborators *)

DefaultUserId == "default"

\* limit=5 of the handler's get_recent_messages call
HistoryLimit == 5

\* What a caller passes as user_context: None or an empty dict, a non-empty
\* dict (the declared type of process_question's parameter), or a
\* RequestContext whose metadata carries user_id ("" = no such key).
AgentUserContexts ==
    { [kind |-> "None", user_id |-> ""],
      [kind |-> "dict", user_id |-> "bob"],
      [kind |-> "RequestContext", user_id |-> "alice"] }

\* main_vanna2 wraps request.user_context in a RequestContext.
QueryUserContexts ==
    { [kind |-> "RequestContext", user_id |-> "alice"],
      [kind |-> "RequestContext", user_id |-> "bob"] }

\* resolve_user calls request_context.get_header, which a dict does not have.
ResolverRaises(rc) == rc.kind = "dict"

ResolvedUserId(rc) ==
    IF rc.kind = "RequestContext" /\ rc.user_id # ""
    THEN rc.user_id
    ELSE DefaultUserId

\* Rows of the three knowledge tables, as loaded by the bulk load.
DdlRows == <<<<"ddl1">>>>
DocRows == <<<<"doc1">>>>
ExampleRows == <<[question |-> Q1, sql |-> Sql1]>>

Take(seq, n) == SubSeq(seq, 1, IF Len(seq) < n THEN Len(seq) ELSE n)

\* No run_sql call has been made / no memory call has been made.
NoRun == [called |-> FALSE]
NoMemRet == [op |-> "none"]

\* An embedding is a point on a line, and the cosine distance of two
\* embeddings (the operator <=> of pgvector) is their distance on it, in
\* tenths; the similarity is 1 - distance.
Embed(text) == IF text = Q1 THEN 2 ELSE 5
CosineDistance(a, b) == IF a < b THEN b - a ELSE a - b
Similarity(a, b) == 10 - CosineDistance(a, b)

\* The embeddings the bulk load stored with the i-th row of a table: the
\* first two rows of vanna_ddl are equally far from Embed(Q2), the rows of
\* the other two tables are each at a distance of its own.
DdlEmbedding(i) == IF i = 1 THEN 4 ELSE i + 4
RowEmbedding(i) == i + 5

\* The rows of the knowledge tables after a bulk load of n.ddl, n.doc and
\* n.ex items; the text of a row is written as its number.
TablesOf(n) ==
    [vanna_ddl |-> [i \in 1..n.ddl |-> [ddl_text |-> i, embedding |-> DdlEmbedding(i)]],
     vanna_documentation |->
         [i \in 1..n.doc |-> [doc_text |-> i, embedding |-> RowEmbedding(i)]],
     vanna_sql_examples |->
         [i \in 1..n.ex |-> [question |-> i, sql_query |-> i,
                              embedding |-> RowEmbedding(i)]],
     vanna_text_memory |-> <<>>]

\* The tables behind the handlers: one row each (DdlRows, DocRows, ExampleRows).
LoadedTables == TablesOf([ddl |-> 1, doc |-> 1, ex |-> 1])

\* The sections _build_system_prompt appends to the fixed instructions.
build_system_prompt(ctx) ==
    [ddl |-> Take(ctx.ddl, 10),
     documentation |-> ctx.documentation,
     sql_examples |-> Take(ctx.sql_examples, 3)]

\* tool_call["function"]["arguments"]: a JSON text, by what json.loads
\* makes of it.
ArgsInvalid == [j |-> "invalid"]
ArgsArray == [j |-> "array"]
ArgsObject(sqlv) == [j |-> "object", sql |-> sqlv]

JsonLoadsRaises(a) == a.j = "invalid"
\* args.get("sql") on a value that is not a dict raises AttributeError
ArgsGetRaises(a) == a.j # "object"
ArgsGetSql(a) == a.sql

\* Python truth value of an Optional[str]
Truthy(v) == v # NoneV /\ v.v # <<>>

RunSqlCall(s) == [name |-> "run_sql", arguments |-> ArgsObject(Str(s))]
OtherCall == [name |-> "other", arguments |-> ArgsObject(NoneV)]

ToolCallLists ==
    { <<RunSqlCall(Sql1)>>,
      <<RunSqlCall(Sql2)>>,
      <<[name |-> "run_sql", arguments |-> ArgsInvalid]>>,
      <<[name |-> "run_sql", arguments |-> ArgsArray]>>,
      <<[name |-> "run_sql", arguments |-> ArgsObject(NoneV)]>>,
      <<[name |-> "run_sql", arguments |-> ArgsObject(Str(<<>>))]>>,
      <<OtherCall>>,
      <<RunSqlCall(Sql1), RunSqlCall(Sql2)>>,
      <<OtherCall, RunSqlCall(Sql1)>>,
      <<RunSqlCall(Sql1), [name |-> "run_sql", arguments |-> ArgsInvalid]>>,
      <<RunSqlCall(Sql1), RunSqlCall(Sql2), RunSqlCall(Sql1)>> }

Contents ==
    { <<>>, RefusalText, OutOfScopeText, FencedSqlText, BareSelectText,
      UpperFenceText, EmptyFenceText }

\* What llm.generate returns: content is always a str; the key tool_calls is
\* present only when the model made at least one tool call (<<>> = absent).
Responses ==
    { [content |-> c, tool_calls |-> <<>>] : c \in Contents }
    \cup { [content |-> c, tool_calls |-> t] :
             c \in {<<>>, OutOfScopeText}, t \in ToolCallLists }

NoResponse == [content |-> <<>>, tool_calls |-> <<>>]

\* What sql_runner.run_sql returns (sql_tool.py lines 55-80)
OkResult == [columns |-> <<"c">>, rows |-> <<"r">>, row_count |-> 1]
EmptyResult == [columns |-> <<>>, rows |-> <<>>, row_count |-> 0]
ErrResult ==
    [error |-> <<"UndefinedColumn">>, columns |-> <<>>, rows |-> <<>>, row_count |-> 0]
RunSqlResults == {OkResult, EmptyResult, ErrResult}

HasError(query_result) == "error" \in DOMAIN query_result

\* The call memory.save_tool_usage(question=, tool_name=, args=, user_id=,
\* success=) against the signature save_tool_usage(self, question, tool_name,
\* args, context, success=True, metadata=None).
SaveToolUsageParams ==
    {"question", "tool_name", "args", "context", "success", "metadata"}
SaveToolUsageRequired == {"question", "tool_name", "args", "context"}
SaveCallKeywords == {"question", "tool_name", "args", "user_id", "success"}

\* Python binds the keywords of a call to the parameters of the callee and
\* raises TypeError on an unknown keyword or a missing required parameter.
CallBinds(keywords, params, required) ==
    keywords \subseteq params /\ required \subseteq keywords

----------------------------------------------------------------------------
(* The conversation store: tables conversations and conversation_messages *)

ConvIds == {"c1", "c2"}
\* str(uuid.uuid4()) of the n-th request
Uuids == <<"u1", "u2", "u3", "u4">>
AllConvIds == ConvIds \cup {Uuids[i] : i \in 1..Len(Uuids)}

NoRow == [exists |-> FALSE]

\* created_by is a ghost column: the user of the call that inserted the row.
NewRow(uid, t) ==
    [exists |-> TRUE, user_id |-> uid, created_at |-> t, updated_at |-> t,
     metadata |-> "{}", created_by |-> uid]

\* Mutant: the conflict branch also takes the row over for the caller
\* (DO UPDATE SET updated_at = NOW(), user_id = EXCLUDED.user_id).
UpsertTakingOver(convs, cid, uid, t) ==
    IF convs[cid] = NoRow
    THEN [convs EXCEPT ![cid] = NewRow(uid, t)]
    ELSE [convs EXCEPT ![cid].updated_at = t, ![cid].user_id = uid]

\* INSERT INTO conversations ... ON CONFLICT (id) DO UPDATE SET updated_at = NOW()
UpsertConversation(convs, cid, uid, t) ==
    IF convs[cid] = NoRow
    THEN [convs EXCEPT ![cid] = NewRow(uid, t)]
    ELSE [convs EXCEPT ![cid].updated_at = t]

\* saved_by is a ghost column: the user of the save_message call.
MessageRow(id, cid, msg, uid) ==
    [id |-> id, conversation_id |-> cid, role |-> msg.role,
     content |-> msg.content, timestamp |-> msg.timestamp,
     metadata |-> "{}", saved_by |-> uid]

Message(role, content, ts) == [role |-> role, content |-> content, timestamp |-> ts]

\* The transaction of save_message, committed at database time t.
SaveMessageTx(cid, msg, uid, t) ==
    /\ now' = t
    /\ conversations' = UpsertConversation(conversations, cid, uid, t)
    /\ messages' = Append(messages, MessageRow(nextMsgId, cid, msg, uid))
    /\ nextMsgId' = nextMsgId + 1

\* The database clock at the next statement: it has not moved, or it has.
Ticks == {t \in {now, now + 1} : t <= MaxTime}

RowsOf(cid) == {messages[i] : i \in {k \in 1..Len(messages) : messages[k].conversation_id = cid}}

RECURSIVE AscOrders(_)
\* Every order ORDER BY timestamp ASC may return the rows of S in: rows of
\* equal timestamp come in an order SQL leaves open.
AscOrders(S) ==
    IF S = {} THEN {<<>>}
    ELSE UNION { { <<m>> \o r : r \in AscOrders(S \ {m}) } :
                 m \in {x \in S : \A y \in S : x.timestamp <= y.timestamp} }

RECURSIVE Reverse(_)
Reverse(seq) == IF seq = <<>> THEN <<>> ELSE Append(Reverse(Tail(seq)), Head(seq))

DescOrders(S) == { Reverse(o) : o \in AscOrders(S) }

ToMessage(row) == [role |-> row.role, content |-> row.content, timestamp |-> row.timestamp]
ToMessages(rows) == [i \in 1..Len(rows) |-> ToMessage(rows[i])]

Owns(cid, uid) == conversations[cid] # NoRow /\ conversations[cid].user_id = uid

\* The values get_conversation(cid, uid) can return.
get_conversation(cid, uid) ==
    IF ~Owns(cid, uid) THEN {NoneV}
    ELSE { [kind |-> "Conversation", id |-> cid,
            user_id |-> conversations[cid].user_id,
            messages |-> ToMessages(o),
            created_at |-> conversations[cid].created_at,
            updated_at |-> conversations[cid].updated_at,
            metadata |-> conversations[cid].metadata] : o \in AscOrders(RowsOf(cid)) }

\* The values get_recent_messages(cid, uid, limit) can return.
get_recent_messages(cid, uid, limit) ==
    IF ~Owns(cid, uid) THEN {<<>>}
    ELSE { ToMessages(Reverse(Take(o, limit))) : o \in DescOrders(RowsOf(cid)) }

\* The ids list_conversations(uid, limit) returns, unordered.
OwnedIds(uid) == {c \in AllConvIds : Owns(c, uid)}

----------------------------------------------------------------------------
(* process_question (vanna_agent.py) and query_database (main_vanna2.py) *)

\* Mutant: the memory write-back placed after the try block.
TryScopeWithoutSave(h) ==
    IF h = "agent"
    THEN {"resolve_user", "search_ddl", "search_documentation",
          "search_sql_examples", "llm", "tool_loop", "free_text", "run_sql",
          "return"}
    ELSE IF h = "query"
    THEN {"resolve_user", "get_history", "save_user_msg", "search_ddl",
          "search_documentation", "search_sql_examples", "llm", "tool_loop",
          "run_sql", "save_assistant_msg", "return"}
    ELSE {"call_agent", "send_message"}

\* Mutant: the retrieval of the context placed before the try block.
TryScopeWithoutRetrieval(h) ==
    IF h = "agent"
    THEN {"resolve_user", "llm", "tool_loop", "free_text", "run_sql", "save",
          "return"}
    ELSE IF h = "query"
    THEN {"resolve_user", "get_history", "save_user_msg", "llm", "tool_loop",
          "run_sql", "save", "save_assistant_msg", "return"}
    ELSE {"call_agent", "send_message"}

\* The positions of each handler that lie inside its try block.
TryScope(h) ==
    IF h = "agent"
    THEN {"resolve_user", "search_ddl", "search_documentation",
          "search_sql_examples", "llm", "tool_loop", "free_text", "run_sql",
          "save", "return"}
    ELSE IF h = "query"
    THEN {"resolve_user", "get_history", "save_user_msg", "search_ddl",
          "search_documentation", "search_sql_examples", "llm", "tool_loop",
          "run_sql", "save", "save_assistant_msg", "return"}
    ELSE {"call_agent", "send_message"}

\* except Exception as e: return {...}   (vanna_agent.py lines 139-146)
ExceptResult(q, msg) ==
    [question |-> Str(q), sql |-> NoneV, results |-> NoneV,
     explanation |-> NoneV, error |-> Str(msg)]

\* raise HTTPException(status_code=..., detail=...)
HttpException(code, msg) == [status_code |-> code, detail |-> Str(msg)]

\* result = {...}   (vanna_agent.py lines 84-91, main_vanna2.py lines 246-254)
InitialResult(h, q, resp, prompt, cid) ==
    IF h = "agent"
    THEN [question |-> Str(q), sql |-> NoneV, results |-> NoneV,
          explanation |-> Str(resp.content), prompt |-> prompt, error |-> NoneV]
    ELSE [question |-> Str(q), sql |-> NoneV, results |-> NoneV,
          explanation |-> Str(resp.content), conversation_id |-> cid,
          prompt |-> prompt, error |-> NoneV]

\* Mutant: the LLM called without the retrieval of the context.
AfterResolveSkippingRetrieval(h, reqCid) ==
    IF h = "agent" THEN "llm"
    ELSE IF reqCid # "" THEN "get_history" ELSE "save_user_msg"

\* Where the handler goes once the user is resolved.
AfterResolve(h, reqCid) ==
    IF h = "agent" THEN "search_ddl"
    ELSE IF reqCid # "" THEN "get_history" ELSE "save_user_msg"

\* Where the handler goes after the if / elif over the response.
AfterBranches(h) == IF h = "agent" THEN "return" ELSE "save_assistant_msg"

\* Where the for-loop over tool_calls goes with index i.
LoopAt(h, resp, i) ==
    IF i <= Len(resp.tool_calls) THEN "tool_loop" ELSE AfterBranches(h)

\* Mutant: the write-back is not gated on the result.
SaveGateAlways(query_result) == TRUE

\* Whether the result of run_sql lets the handler call save_tool_usage
\* (if "error" not in query_result).
SaveGate(query_result) == ~HasError(query_result)

\* What the tool-call branch does with a failed execution (else: branch),
\* and what the free-text branch does with it (nothing).
ErrorAfterExec(resp, res, query_result) ==
    IF resp.tool_calls # <<>> /\ HasError(query_result)
    THEN Str(query_result.error)
    ELSE res.error

\* An exception raised at the current position: the except clause of the
\* handler turns it into the value returned (agent) or into an
\* HTTPException 500 (main_vanna2); outside the try block it leaves the
\* handler as it is.
Fail(who, msg) ==
    /\ raisedBy' = who
    /\ pc' = "done"
    /\ IF pc \in TryScope(handler)
       THEN /\ escaped' = FALSE
            /\ result' = IF handler = "agent"
                         THEN ExceptResult(question, msg)
                         ELSE HttpException(500, msg)
       ELSE /\ escaped' = TRUE
            /\ result' = NoneV

\* How many requests a behaviour of the model makes to a handler.
RequestBound(h) == IF h = "agent" THEN MaxQuestions ELSE MaxQueryRequests

\* The handlers that test the question before anything else:
\* if not request.question or not request.question.strip(): raise 400
ValidatingHandlers == {"query", "main"}

\* Where each entry point goes with a question it took.
AfterStart(h) ==
    IF h = "main" THEN "call_agent"
    ELSE IF h = "full" THEN "send_message"
    ELSE "resolve_user"

\* The local conversation_id: main_vanna2 makes one up for a request that
\* has none, main_vanna2_full takes "".
ConversationIdOf(h, cid, n) ==
    IF cid # "" THEN cid ELSE IF h = "full" THEN "" ELSE Uuids[n]

\* A request arrives.  main and main_vanna2 reject a blank question with
\* HTTP 400 before their try block; process_question and main_vanna2_full
\* take the question as it is.
\* (The components are initialised: the application started.)
Start(q, uc, cid) ==
    /\ pc = "idle"
    /\ nRequests < RequestBound(handler)
    /\ nRequests' = nRequests + 1
    /\ question' = q
    /\ user_context' = uc
    /\ req_conversation_id' = cid
    /\ conversation_id' = ConversationIdOf(handler, cid, nRequests + 1)
    /\ IF handler \in ValidatingHandlers /\ (q = <<>> \/ Strip(q) = <<>>)
       THEN /\ pc' = "done"
            /\ result' = HttpException(400, <<"Question cannot be empty">>)
       ELSE /\ pc' = AfterStart(handler)
            /\ result' = NoneV
    /\ UNCHANGED <<handler, user, context, response, tcIdx, sql, escaped,
                   raisedBy, execLog, llmCalls, embedCalls, saveCalls, okExecs,
                   toolMemory, conversation_history, storeVars, ret,
                   runnerVars, memoryVars, extraVars>>

ResolveUser ==
    /\ pc = "resolve_user"
    /\ IF ResolverRaises(user_context)
       THEN /\ Fail("user_resolver", <<"AttributeError">>)
            /\ UNCHANGED user
       ELSE /\ user' = ResolvedUserId(user_context)
            /\ pc' = AfterResolve(handler, req_conversation_id)
            /\ UNCHANGED <<result, escaped, raisedBy>>
    /\ UNCHANGED <<handler, question, user_context, context, response, tcIdx,
                   sql, execLog, llmCalls, embedCalls, saveCalls, okExecs,
                   nRequests, toolMemory, req_conversation_id, conversation_id,
                   conversation_history, storeVars, ret,
                   runnerVars, memoryVars, extraVars>>

\* main.py: result = await agent.process_question(question=..., session_id=...,
\* user_context=...) against process_question(self, question, user_context)
ProcessQuestionParams == {"question", "user_context"}
ProcessQuestionRequired == {"question"}
MainCallKeywords == {"question", "session_id", "user_context"}

\* The call of process_question by main.py: the keywords bind and the body of
\* process_question runs, or Python raises TypeError inside the try block of
\* the handler.
CallAgent ==
    /\ pc = "call_agent"
    /\ IF CallBinds(MainCallKeywords, ProcessQuestionParams, ProcessQuestionRequired)
       THEN /\ pc' = "resolve_user"
            /\ UNCHANGED <<result, escaped, raisedBy>>
       ELSE Fail("agent_call", <<"TypeError">>)
    /\ UNCHANGED <<handler, question, user_context, user, context, response,
                   tcIdx, sql, execLog, llmCalls, embedCalls, saveCalls,
                   okExecs, nRequests, toolMemory, req_conversation_id,
                   conversation_id, conversation_history, storeVars, ret,
                   runnerVars, memoryVars, extraVars>>

\* What the responses streamed by Agent.send_message carry: text, or the
\* data of a tool result.
ContentResponse == [content |-> Str(OutOfScopeText)]
SqlResponse == [tool_result |-> [sql |-> Str(Sql1), rows |-> <<"r">>, columns |-> <<"c">>]]
ResponseLists == {<<>>, <<ContentResponse>>, <<SqlResponse, ContentResponse>>}

RECURSIVE Extract(_, _, _)
\* for resp in responses: ... (main_vanna2_full.py lines 282-307)
Extract(responses, i, acc) ==
    IF i > Len(responses) THEN acc
    ELSE LET r == responses[i] IN
         Extract(responses, i + 1,
                 IF "tool_result" \in DOMAIN r
                 THEN [acc EXCEPT !.sql = r.tool_result.sql, !.results = r.tool_result]
                 ELSE [acc EXCEPT !.explanation = @ \o r.content.v])

\* response_data of main_vanna2_full (lines 310-317)
ResponseData(q, cid, responses) ==
    LET x == Extract(responses, 1, [sql |-> NoneV, results |-> NoneV, explanation |-> <<>>])
    IN  [question |-> Str(q), sql |-> x.sql, results |-> x.results,
         explanation |-> IF x.explanation # <<>> THEN Str(Strip(x.explanation)) ELSE NoneV,
         conversation_id |-> cid, error |-> NoneV]

\* main_vanna2_full: async for response in agent.send_message(context,
\* request.question, conversation_id=...), then the extraction.  Agent is the
\* class of the vanna package: whether it resolves the user and calls the
\* LLM for the message is its choice; it may raise.
SendMessage ==
    /\ pc = "send_message"
    /\ \/ \E responses \in ResponseLists, resolved \in BOOLEAN, llm \in {0, 1} :
            /\ user' = IF resolved THEN DefaultUserId ELSE user
            /\ llmCalls' = llmCalls + llm
            /\ result' = ResponseData(question, conversation_id, responses)
            /\ pc' = "return"
            /\ UNCHANGED <<escaped, raisedBy>>
       \/ /\ Fail("agent", <<"AgentError">>)
          /\ UNCHANGED <<user, llmCalls>>
    /\ UNCHANGED <<handler, question, user_context, context, response, tcIdx,
                   sql, execLog, embedCalls, saveCalls, okExecs, nRequests,
                   toolMemory, req_conversation_id, conversation_id,
                   conversation_history, storeVars, ret, runnerVars, memoryVars, extraVars>>

\* conversation_store.get_recent_messages(conversation_id, user.id, limit=5)
GetHistory ==
    /\ pc = "get_history"
    /\ \/ /\ \E h \in get_recent_messages(conversation_id, user, HistoryLimit) :
               conversation_history' = h
          /\ pc' = "save_user_msg"
          /\ UNCHANGED <<result, escaped, raisedBy>>
       \/ /\ Fail("conversation_store", <<"PostgresError">>)
          /\ UNCHANGED conversation_history
    /\ UNCHANGED <<handler, question, user_context, user, context, response,
                   tcIdx, sql, execLog, llmCalls, embedCalls, saveCalls,
                   okExecs, nRequests, toolMemory, req_conversation_id,
                   conversation_id, storeVars, ret,
                   runnerVars, memoryVars, extraVars>>

\* conversation_store.save_message(conversation_id, Message(role="user",
\* content=request.question), user.id)
SaveUserMsg ==
    /\ pc = "save_user_msg"
    /\ \/ /\ \E t \in Ticks :
               SaveMessageTx(conversation_id, Message("user", question, now), user, t)
          /\ pc' = "search_ddl"
          /\ UNCHANGED <<result, escaped, raisedBy>>
       \/ /\ Fail("conversation_store", <<"PostgresError">>)
          /\ UNCHANGED storeVars
    /\ UNCHANGED <<handler, question, user_context, user, context, response,
                   tcIdx, sql, execLog, llmCalls, embedCalls, saveCalls,
                   okExecs, nRequests, toolMemory, req_conversation_id,
                   conversation_id, conversation_history, ret,
                   runnerVars, memoryVars, extraVars>>

\* One of search_ddl, search_documentation, search_sql_examples: it embeds
\* the question, then fetches the rows nearest to the embedding.
Search(at, next, rows, limit) ==
    /\ pc = at
    /\ embedCalls' = embedCalls + 1
    /\ \/ /\ context' = [context EXCEPT ![at] = Take(rows, limit)]
          /\ pc' = next
          /\ UNCHANGED <<result, escaped, raisedBy>>
       \/ /\ Fail("embedding", <<"EmbeddingError">>)
          /\ UNCHANGED context
       \/ /\ Fail("vector_search", <<"PostgresError">>)
          /\ UNCHANGED context
    /\ UNCHANGED <<handler, question, user_context, user, response, tcIdx, sql,
                   execLog, llmCalls, saveCalls, okExecs, nRequests, toolMemory,
                   req_conversation_id, conversation_id, conversation_history,
                   storeVars, ret,
                   runnerVars, memoryVars, extraVars>>

SearchDdl == Search("search_ddl", "search_documentation", DdlRows, 10)
SearchDocumentation ==
    Search("search_documentation", "search_sql_examples", DocRows, 5)
SearchSqlExamples == Search("search_sql_examples", "llm", ExampleRows, 5)

\* Which branch the handler takes on a response (if / elif).
BranchOf(h, resp) ==
    IF resp.tool_calls # <<>> THEN LoopAt(h, resp, 1)
    ELSE IF h = "agent" /\ resp.content # <<>> THEN "free_text"
    ELSE AfterBranches(h)

\* The context under the keys the prompt builder reads.
ContextOf(c) ==
    [ddl |-> c["search_ddl"], documentation |-> c["search_documentation"],
     sql_examples |-> c["search_sql_examples"]]

LlmGenerate ==
    /\ pc = "llm"
    /\ llmCalls' = llmCalls + 1
    /\ \/ /\ \E r \in Responses :
               /\ response' = r
               /\ result' = InitialResult(handler, question, r,
                                build_system_prompt(ContextOf(context)),
                                conversation_id)
               /\ pc' = BranchOf(handler, r)
          /\ tcIdx' = 1
          /\ UNCHANGED <<escaped, raisedBy>>
       \/ /\ Fail("llm", <<"APIError">>)
          /\ UNCHANGED <<response, tcIdx>>
    /\ UNCHANGED <<handler, question, user_context, user, context, sql,
                   execLog, embedCalls, saveCalls, okExecs, nRequests,
                   toolMemory, req_conversation_id, conversation_id,
                   conversation_history, storeVars, ret,
                   runnerVars, memoryVars, extraVars>>

\* One iteration of the for-loop over response["tool_calls"], up to the
\* call of run_sql.
ToolLoop ==
    /\ pc = "tool_loop"
    /\ LET tc == response.tool_calls[tcIdx] IN
       IF tc.name # "run_sql"
       THEN /\ tcIdx' = tcIdx + 1
            /\ pc' = LoopAt(handler, response, tcIdx + 1)
            /\ UNCHANGED <<sql, result, escaped, raisedBy>>
       ELSE IF JsonLoadsRaises(tc.arguments)
       THEN /\ Fail("json", <<"JSONDecodeError">>)
            /\ UNCHANGED <<sql, tcIdx>>
       ELSE IF ArgsGetRaises(tc.arguments)
       THEN /\ Fail("json", <<"AttributeError">>)
            /\ UNCHANGED <<sql, tcIdx>>
       ELSE IF Truthy(ArgsGetSql(tc.arguments))
       THEN /\ sql' = ArgsGetSql(tc.arguments).v
            /\ result' = [result EXCEPT !.sql = ArgsGetSql(tc.arguments)]
            /\ pc' = "run_sql"
            /\ UNCHANGED <<tcIdx, escaped, raisedBy>>
       ELSE /\ tcIdx' = tcIdx + 1
            /\ pc' = LoopAt(handler, response, tcIdx + 1)
            /\ UNCHANGED <<sql, result, escaped, raisedBy>>
    /\ UNCHANGED <<handler, question, user_context, user, context, response,
                   execLog, llmCalls, embedCalls, saveCalls, okExecs, nRequests,
                   toolMemory, req_conversation_id, conversation_id,
                   conversation_history, storeVars, ret,
                   runnerVars, memoryVars, extraVars>>

\* elif response.get("content"): sql = self._extract_sql_from_text(...)
FreeText ==
    /\ pc = "free_text"
    /\ LET s == extract_sql_from_text(response.content) IN
       IF s # <<>>
       THEN /\ sql' = s
            /\ result' = [result EXCEPT !.sql = Str(s)]
            /\ pc' = "run_sql"
       ELSE /\ pc' = "return"
            /\ UNCHANGED <<sql, result>>
    /\ UNCHANGED <<handler, question, user_context, user, context, response,
                   tcIdx, escaped, raisedBy, execLog, llmCalls, embedCalls,
                   saveCalls, okExecs, nRequests, toolMemory,
                   req_conversation_id, conversation_id, conversation_history,
                   storeVars, ret,
                   runnerVars, memoryVars, extraVars>>

\* Where the handler continues after the body of "if sql:".
AfterSql(h, resp, i) ==
    IF resp.tool_calls # <<>> THEN LoopAt(h, resp, i + 1) ELSE "return"

\* query_result = await self.sql_runner.run_sql(sql), and the branch on it.
\* The runner is injected: PostgresSqlRunner returns a dict with or without
\* 'error'; another runner may raise.
RunSql ==
    /\ pc = "run_sql"
    /\ \/ \E qr \in RunSqlResults :
            /\ execLog' = Append(execLog, [sql |-> sql, result |-> qr])
            /\ okExecs' = okExecs + (IF HasError(qr) THEN 0 ELSE 1)
            /\ result' = [result EXCEPT !.results = qr,
                                        !.error = ErrorAfterExec(response, result, qr)]
            /\ IF SaveGate(qr)
               THEN pc' = "save" /\ UNCHANGED tcIdx
               ELSE /\ pc' = AfterSql(handler, response, tcIdx)
                    /\ tcIdx' = tcIdx + 1
            /\ UNCHANGED <<escaped, raisedBy>>
       \/ /\ Fail("sql_runner", <<"RunnerError">>)
          /\ UNCHANGED <<execLog, okExecs, tcIdx>>
    /\ UNCHANGED <<handler, question, user_context, user, context, response,
                   sql, llmCalls, embedCalls, saveCalls, nRequests, toolMemory,
                   req_conversation_id, conversation_id, conversation_history,
                   storeVars, ret,
                   runnerVars, memoryVars, extraVars>>

\* The row save_tool_usage inserts into vanna_tool_memory.
ToolMemoryRow(q, tool, s, uid) ==
    [question |-> q, tool_name |-> tool, args |-> [sql |-> s],
     user_id |-> uid, success |-> TRUE, embedding |-> Embed(q)]

\* await self.memory.save_tool_usage(question=..., tool_name="run_sql",
\* args={"sql": sql}, user_id=user.id, success=True)
SaveToolUsage ==
    /\ pc = "save"
    /\ saveCalls' = saveCalls + 1
    /\ IF ~CallBinds(SaveCallKeywords, SaveToolUsageParams, SaveToolUsageRequired)
       THEN /\ Fail("save_call", <<"TypeError">>)
            /\ UNCHANGED <<toolMemory, embedCalls, tcIdx>>
       ELSE \/ /\ embedCalls' = embedCalls + 1
               /\ toolMemory' = Append(toolMemory,
                                   ToolMemoryRow(question, "run_sql", sql, user))
               /\ pc' = AfterSql(handler, response, tcIdx)
               /\ tcIdx' = tcIdx + 1
               /\ UNCHANGED <<result, escaped, raisedBy>>
            \/ /\ embedCalls' = embedCalls + 1
               /\ Fail("memory_embedding", <<"EmbeddingError">>)
               /\ UNCHANGED <<toolMemory, tcIdx>>
            \/ /\ embedCalls' = embedCalls + 1
               /\ Fail("memory_insert", <<"PostgresError">>)
               /\ UNCHANGED <<toolMemory, tcIdx>>
    /\ UNCHANGED <<handler, question, user_context, user, context, response,
                   sql, execLog, llmCalls, okExecs, nRequests,
                   req_conversation_id, conversation_id, conversation_history,
                   storeVars, ret,
                   runnerVars, memoryVars, extraVars>>

\* assistant_message = result["explanation"] or "Generated SQL query"
AssistantText(res) ==
    IF Truthy(res.explanation) THEN res.explanation.v ELSE <<"Generated SQL query">>

SaveAssistantMsg ==
    /\ pc = "save_assistant_msg"
    /\ \/ /\ \E t \in Ticks :
               SaveMessageTx(conversation_id,
                             Message("assistant", AssistantText(result), now), user, t)
          /\ pc' = "return"
          /\ UNCHANGED <<result, escaped, raisedBy>>
       \/ /\ Fail("conversation_store", <<"PostgresError">>)
          /\ UNCHANGED storeVars
    /\ UNCHANGED <<handler, question, user_context, user, context, response,
                   tcIdx, sql, execLog, llmCalls, embedCalls, saveCalls,
                   okExecs, nRequests, toolMemory, req_conversation_id,
                   conversation_id, conversation_history, ret,
                   runnerVars, memoryVars, extraVars>>

\* return result / return QueryResponse(**result)
Return ==
    /\ pc = "return"
    /\ pc' = "done"
    /\ UNCHANGED <<handler, question, user_context, user, context, response,
                   tcIdx, sql, result, escaped, raisedBy, execLog, llmCalls,
                   embedCalls, saveCalls, okExecs, nRequests, toolMemory,
                   req_conversation_id, conversation_id, conversation_history,
                   storeVars, ret,
                   runnerVars, memoryVars, extraVars>>

NoContext ==
    [search_ddl |-> <<>>, search_documentation |-> <<>>, search_sql_examples |-> <<>>]

\* The request is over; the locals of the handler are gone.
Finish ==
    /\ pc = "done"
    /\ pc' = "idle"
    /\ question' = <<>>
    /\ user_context' = [kind |-> "None", user_id |-> ""]
    /\ user' = ""
    /\ context' = NoContext
    /\ response' = NoResponse
    /\ tcIdx' = 1
    /\ sql' = <<>>
    /\ result' = NoneV
    /\ escaped' = FALSE
    /\ raisedBy' = ""
    /\ execLog' = <<>>
    /\ llmCalls' = 0
    /\ embedCalls' = 0
    /\ req_conversation_id' = ""
    /\ conversation_id' = ""
    /\ conversation_history' = <<>>
    /\ UNCHANGED <<handler, saveCalls, okExecs, nRequests, toolMemory,
                   storeVars, ret,
                   runnerVars, memoryVars, extraVars>>

NoRet == [op |-> "none", conversation_id |-> "", user_id |-> "", value |-> NoneV]

InitStore ==
    /\ conversations = [c \in AllConvIds |-> NoRow]
    /\ messages = <<>>
    /\ nextMsgId = 1
    /\ now = 0
    /\ ret = NoRet

InitLocals ==
    /\ pc = "idle"
    /\ question = <<>>
    /\ user_context = [kind |-> "None", user_id |-> ""]
    /\ user = ""
    /\ context = NoContext
    /\ response = NoResponse
    /\ tcIdx = 1
    /\ sql = <<>>
    /\ result = NoneV
    /\ escaped = FALSE
    /\ raisedBy = ""
    /\ execLog = <<>>
    /\ llmCalls = 0
    /\ embedCalls = 0
    /\ saveCalls = 0
    /\ okExecs = 0
    /\ nRequests = 0
    /\ toolMemory = <<>>
    /\ req_conversation_id = ""
    /\ conversation_id = ""
    /\ conversation_history = <<>>

\* No tool has been executed yet.
NoToolCall == [tool |-> "none"]
NoToolRet == [tool |-> "none"]

\* The requests running side by side, none of them in a database call yet.
MaxSessions == 2
Sessions == 1..MaxSessions
IdleSession == [pc |-> "idle", op |-> "none", call |-> 0, conversation_id |-> "",
                inserts |-> FALSE, msg_id |-> 0, t |-> 0]

InitSessions ==
    /\ sessions = [s \in Sessions |-> IdleSession]
    /\ completed = {}

InitExtra ==
    /\ toolCall = NoToolCall
    /\ toolRet = NoToolRet
    /\ InitSessions

\* The components the lifespan of the application built and initialised.
InitComponents ==
    /\ pool = "open"
    /\ lastRun = NoRun
    /\ tables = LoadedTables
    /\ memRet = NoMemRet
    /\ memPrev = NoMemRet
    /\ InitExtra

\* What runs: process_question called on the agent, or one of the three
\* applications with its POST /api/query (main, main_vanna2, main_vanna2_full).
Init ==
    /\ handler \in {"agent", "query", "main", "full"}
    /\ InitLocals
    /\ InitStore
    /\ InitComponents

StartAgent ==
    /\ handler = "agent"
    /\ \E q \in Questions, uc \in AgentUserContexts : Start(q, uc, "")

\* request.question, request.user_context and request.conversation_id of a
\* POST /api/query
QueryQuestions == {Q1, <<>>, <<" ">>}
QueryConvIds == {"", "c1"}

StartQuery ==
    /\ handler = "query"
    /\ \E q \in QueryQuestions, uc \in QueryUserContexts, cid \in QueryConvIds :
           Start(q, uc, cid)

\* main.py: request.question and request.user_context or {}
StartMain ==
    /\ handler = "main"
    /\ \E q \in QueryQuestions : Start(q, [kind |-> "dict", user_id |-> ""], "")

\* main_vanna2_full.py: request.question and request.conversation_id; the
\* RequestContext carries no user.
StartFull ==
    /\ handler = "full"
    /\ \E q \in QueryQuestions, cid \in QueryConvIds :
           Start(q, [kind |-> "RequestContext", user_id |-> ""], cid)

Next ==
    \/ StartAgent
    \/ StartQuery
    \/ StartMain
    \/ StartFull
    \/ CallAgent
    \/ SendMessage
    \/ ResolveUser
    \/ GetHistory
    \/ SaveUserMsg
    \/ SaveAssistantMsg
    \/ SearchDdl
    \/ SearchDocumentation
    \/ SearchSqlExamples
    \/ LlmGenerate
    \/ ToolLoop
    \/ FreeText
    \/ RunSql
    \/ SaveToolUsage
    \/ Return
    \/ Finish

Spec == Init /\ [][Next]_vars

----------------------------------------------------------------------------
(* The conversation store called directly (its six operations) *)

StoreConvIds == {"c1"}
StoreUsers == {"alice", "bob"}
\* message.timestamp as the caller supplies it
MsgTimes == {0, 1}
\* the content of the n-th message saved
MsgContents == <<<<"m1">>, <<"m2">>, <<"m3">>, <<"m4">>, <<"m5">>>>
\* json.dumps(conversation.metadata) of an update_conversation call
MetadataTexts == {"{}", "{k}"}
ReadLimits == {1, 10}

Ret(op, cid, uid, value) ==
    [op |-> op, conversation_id |-> cid, user_id |-> uid, value |-> value]

\* Mutant: the DELETE without its user_id condition.
DeleteMatchesAnyUser(cid, uid) == conversations[cid] # NoRow

\* DELETE FROM conversations WHERE id = $1 AND user_id = $2; the foreign key
\* of conversation_messages is ON DELETE CASCADE.
DeleteMatches(cid, uid) == Owns(cid, uid)

\* Mutant: a DELETE that leaves the messages of the conversation behind.
KeepMessages(seq, cid, i) == seq

RECURSIVE WithoutConversation(_, _, _)
\* the rows of seq, in order, that do not belong to conversation cid
WithoutConversation(seq, cid, i) ==
    IF i > Len(seq) THEN <<>>
    ELSE IF seq[i].conversation_id = cid
    THEN WithoutConversation(seq, cid, i + 1)
    ELSE <<seq[i]>> \o WithoutConversation(seq, cid, i + 1)

\* UPDATE conversations SET updated_at = NOW(), metadata = $2 WHERE id = $1
UpdateRow(convs, cid, meta, t) ==
    IF convs[cid] = NoRow THEN convs
    ELSE [convs EXCEPT ![cid].updated_at = t, ![cid].metadata = meta]

RECURSIVE UpdatedDescOrders(_)
\* Every order ORDER BY updated_at DESC may return the ids of S in.
UpdatedDescOrders(S) ==
    IF S = {} THEN {<<>>}
    ELSE UNION { { <<c>> \o r : r \in UpdatedDescOrders(S \ {c}) } :
                 c \in {x \in S : \A y \in S :
                          conversations[x].updated_at >= conversations[y].updated_at} }

\* The values list_conversations(uid, limit) can return (messages = []).
list_conversations(uid, limit) ==
    { [i \in 1..Len(Take(o, limit)) |->
          [kind |-> "Conversation", id |-> o[i],
           user_id |-> conversations[o[i]].user_id, messages |-> <<>>,
           created_at |-> conversations[o[i]].created_at,
           updated_at |-> conversations[o[i]].updated_at,
           metadata |-> conversations[o[i]].metadata]] :
      o \in UpdatedDescOrders(OwnedIds(uid)) }

StoreSaveMessage ==
    /\ nextMsgId <= MaxMsgs
    /\ \E cid \in StoreConvIds, uid \in StoreUsers, ts \in MsgTimes :
         /\ \/ \E t \in Ticks :
                 SaveMessageTx(cid, Message("user", MsgContents[nextMsgId], ts), uid, t)
            \/ UNCHANGED storeVars      \* the transaction failed and rolled back
         /\ ret' = Ret("save_message", cid, uid, NoneV)
    /\ UNCHANGED <<agentVars, runnerVars, memoryVars, extraVars>>

StoreGetConversation ==
    /\ \E cid \in StoreConvIds, uid \in StoreUsers :
         \E v \in get_conversation(cid, uid) :
             ret' = Ret("get_conversation", cid, uid, v)
    /\ UNCHANGED <<agentVars, storeVars, runnerVars, memoryVars, extraVars>>

StoreGetRecentMessages ==
    /\ \E cid \in StoreConvIds, uid \in StoreUsers, limit \in ReadLimits :
         \E v \in get_recent_messages(cid, uid, limit) :
             ret' = Ret("get_recent_messages", cid, uid, v)
    /\ UNCHANGED <<agentVars, storeVars, runnerVars, memoryVars, extraVars>>

StoreListConversations ==
    /\ \E uid \in StoreUsers, limit \in ReadLimits :
         \E v \in list_conversations(uid, limit) :
             ret' = Ret("list_conversations", "", uid, v)
    /\ UNCHANGED <<agentVars, storeVars, runnerVars, memoryVars, extraVars>>

StoreDeleteConversation ==
    /\ \E cid \in StoreConvIds, uid \in StoreUsers :
         IF DeleteMatches(cid, uid)
         THEN /\ conversations' = [conversations EXCEPT ![cid] = NoRow]
              /\ messages' = WithoutConversation(messages, cid, 1)
              /\ ret' = Ret("delete_conversation", cid, uid, TRUE)
              /\ UNCHANGED <<nextMsgId, now>>
         ELSE /\ ret' = Ret("delete_conversation", cid, uid, FALSE)
              /\ UNCHANGED storeVars
    /\ UNCHANGED <<agentVars, runnerVars, memoryVars, extraVars>>

\* update_conversation(conversation): uid is conversation.user_id of the
\* object the caller passes; the statement does not read it.
StoreUpdateConversation ==
    /\ \E cid \in StoreConvIds, uid \in StoreUsers, meta \in MetadataTexts :
         /\ \E t \in Ticks :
              /\ now' = t
              /\ conversations' = UpdateRow(conversations, cid, meta, t)
         /\ ret' = Ret("update_conversation", cid, uid, NoneV)
         /\ UNCHANGED <<messages, nextMsgId>>
    /\ UNCHANGED <<agentVars, runnerVars, memoryVars, extraVars>>

InitConv ==
    /\ handler = "store"
    /\ InitLocals
    /\ InitStore
    /\ InitComponents

NextConv ==
    \/ StoreSaveMessage
    \/ StoreGetConversation
    \/ StoreGetRecentMessages
    \/ StoreListConversations
    \/ StoreDeleteConversation
    \/ StoreUpdateConversation

SpecConv == InitConv /\ [][NextConv]_vars

----------------------------------------------------------------------------
(* PostgresSqlRunner.run_sql called directly (tools/sql_tool.py) *)

\* Tokens of a SQL text, beyond those of a text: "LIMIT" and "limit" are the
\* keyword of a LIMIT clause, "credit_limit" is an identifier whose letters
\* include limit, "10" is a number.  A "w" holds neither select nor limit.
LimitKeywords == {"LIMIT", "limit"}
LimitLetters == LimitKeywords \cup {"credit_limit"}

\* The sql argument of a run_sql call
SqlTexts ==
    { Sql1,
      Sql2,
      <<>>,
      <<"SELECT", " ", "w", ";">>,
      <<" ", "select", " ", "w">>,
      <<"select", " ", "w", " ", "limit", " ", "10">>,
      <<"SELECT", " ", "w", " ", "LIMIT", " ", "10", ";">>,
      <<"SELECT", " ", "credit_limit", " ", "w">>,
      <<"SELECT", " ", "w", ";", "NL">>,
      <<"w", " ", "credit_limit", ";">> }

\* The limit argument: the default 100, another cap, or 0 / None (no cap).
DefaultLimit == 100
Limits == {DefaultLimit, 5, 0}

\* sql.strip().upper().startswith('SELECT')
StartsWithSelect(s) == Strip(s) # <<>> /\ Strip(s)[1] \in SelectTokens

RECURSIVE RStripSemicolons(_)
\* sql.rstrip(';')
RStripSemicolons(s) ==
    IF s # <<>> /\ s[Len(s)] = ";"
    THEN RStripSemicolons(SubSeq(s, 1, Len(s) - 1))
    ELSE s

\* if limit and sql.strip().upper().startswith('SELECT'):
\*     if 'LIMIT' not in sql.upper(): sql = f"{sql.rstrip(';')} LIMIT {limit}"
AddLimit(s, limit) ==
    IF limit # 0 /\ StartsWithSelect(s) /\ ~Contains(s, LimitLetters)
    THEN RStripSemicolons(s) \o <<" ", "LIMIT", " ", ToString(limit)>>
    ELSE s

\* What conn.fetch(sql) does: it raises, or it returns rows.
MaxRows == 2
RowLists == {[i \in 1..n |-> "r"] : n \in 0..MaxRows}
FetchOutcomes ==
    {[raises |-> TRUE, message |-> <<"PostgresError">>]}
    \cup {[raises |-> FALSE, rows |-> r] : r \in RowLists}

\* The dict run_sql returns for the rows fetched (lines 55-72)
RowsResult(rows) ==
    IF rows = <<>>
    THEN [columns |-> <<>>, rows |-> <<>>, row_count |-> 0]
    ELSE [columns |-> <<"c">>, rows |-> rows, row_count |-> Len(rows)]

\* The dict of the except clause (lines 74-80)
ErrorResult(msg) ==
    [error |-> msg, columns |-> <<>>, rows |-> <<>>, row_count |-> 0]

\* Mutant: the pool acquired before the try block.
RunSqlTryWithoutAcquire == {"rewrite", "fetch"}

\* The steps of run_sql that lie inside its try block.
RunSqlTry == {"rewrite", "acquire", "fetch"}

\* How a run_sql call ends when step `at` raises msg.
RunSqlRaise(at, msg) ==
    IF at \in RunSqlTry
    THEN [raised |-> FALSE, value |-> ErrorResult(msg)]
    ELSE [raised |-> TRUE, value |-> NoneV]

RunSqlReturn(value) == [raised |-> FALSE, value |-> value]

\* One call run_sql(sql, limit): sql is a str, or None (kind "None").
Run(sqlv, limit, sent, failed, out) ==
    [called |-> TRUE, sql |-> sqlv, limit |-> limit, sent |-> sent,
     failed |-> failed, out |-> out]

RunnerRunSql ==
    /\ \E sqlv \in {Str(t) : t \in SqlTexts} \cup {NoneV}, limit \in Limits :
         IF sqlv = NoneV
         THEN \* None has no strip(), and no driver takes it as a query:
              \* an exception inside the try block
              lastRun' = Run(sqlv, limit, NoneV, TRUE,
                             RunSqlRaise("rewrite", <<"AttributeError">>))
         ELSE IF pool # "open"
         THEN lastRun' = Run(sqlv, limit, NoneV, TRUE,
                             RunSqlRaise("acquire", <<"AttributeError">>))
         ELSE \E o \in FetchOutcomes :
                lastRun' = Run(sqlv, limit, Str(AddLimit(sqlv.v, limit)), o.raises,
                               IF o.raises
                               THEN RunSqlRaise("fetch", o.message)
                               ELSE RunSqlReturn(RowsResult(o.rows)))
    /\ UNCHANGED <<pool, agentVars, storeVars, ret, memoryVars, extraVars>>

\* PostgresSqlRunner.initialize and close
RunnerInitialize ==
    /\ pool' = "open"
    /\ UNCHANGED <<lastRun, agentVars, storeVars, ret, memoryVars, extraVars>>

RunnerClose ==
    /\ pool # "None"
    /\ pool' = "closed"
    /\ UNCHANGED <<lastRun, agentVars, storeVars, ret, memoryVars, extraVars>>

InitSql ==
    /\ handler = "sql_runner"
    /\ InitLocals
    /\ InitStore
    /\ pool = "None"
    /\ lastRun = NoRun
    /\ tables = LoadedTables
    /\ memRet = NoMemRet
    /\ memPrev = NoMemRet
    /\ InitExtra

NextSql ==
    \/ RunnerRunSql
    \/ RunnerInitialize
    \/ RunnerClose

SpecSql == InitSql /\ [][NextSql]_vars

----------------------------------------------------------------------------
(* PgVectorAgentMemory called directly (memory/pgvector_memory.py), and the *)
(* prompt assembly that consumes what it retrieves                          *)

MaxDdlRows == 11
MaxDocRows == 6
MaxExampleRows == 6
MaxMemoryWrites == 1

\* limit=10, limit=5, limit=5 of get_context_for_question
DdlLimit == 10
DocLimit == 5
ExampleLimit == 5

\* What the bulk load put into the knowledge tables.
Loads ==
    { [ddl |-> 2, doc |-> 1, ex |-> 4],
      [ddl |-> MaxDdlRows, doc |-> MaxDocRows, ex |-> MaxExampleRows] }

\* Arguments of the calls: limit, similarity_threshold (in tenths; 7 is the
\* default 0.7), tool_name_filter (None or a name), tool names.
SearchLimits == {1, 10}
DefaultThreshold == 7
Thresholds == {0, DefaultThreshold, 10}
ToolNames == {"run_sql", "other"}
ToolNameFilters == {NoneV, Str("run_sql")}

RECURSIVE NearestOrders(_, _, _)
\* Every order ORDER BY embedding <=> $1 may return the rows of `rows` with
\* index in S in: nearest first, rows at equal distance in an order SQL
\* leaves open.
NearestOrders(S, rows, qv) ==
    IF S = {} THEN {<<>>}
    ELSE UNION { { <<i>> \o r : r \in NearestOrders(S \ {i}, rows, qv) } :
                 i \in {x \in S : \A y \in S :
                          CosineDistance(rows[x].embedding, qv)
                              <= CosineDistance(rows[y].embedding, qv)} }

\* Mutant: the query without its LIMIT.
SelectNearestUnlimited(S, rows, qv, limit) == NearestOrders(S, rows, qv)

\* ... ORDER BY embedding <=> $1::vector LIMIT $n over the rows with index
\* in S: the sequences of row indexes the query can return.
SelectNearest(S, rows, qv, limit) ==
    { Take(o, limit) : o \in NearestOrders(S, rows, qv) }

AllRows(rows) == 1..Len(rows)

\* The values search_ddl(question, limit) can return: a list of ddl_text.
search_ddl(q, limit) ==
    { [k \in 1..Len(o) |-> tables.vanna_ddl[o[k]].ddl_text] :
      o \in SelectNearest(AllRows(tables.vanna_ddl), tables.vanna_ddl, Embed(q), limit) }

search_documentation(q, limit) ==
    { [k \in 1..Len(o) |-> tables.vanna_documentation[o[k]].doc_text] :
      o \in SelectNearest(AllRows(tables.vanna_documentation),
                          tables.vanna_documentation, Embed(q), limit) }

search_sql_examples(q, limit) ==
    { [k \in 1..Len(o) |->
          [question |-> tables.vanna_sql_examples[o[k]].question,
           sql |-> tables.vanna_sql_examples[o[k]].sql_query,
           similarity |-> Similarity(tables.vanna_sql_examples[o[k]].embedding, Embed(q))]] :
      o \in SelectNearest(AllRows(tables.vanna_sql_examples),
                          tables.vanna_sql_examples, Embed(q), limit) }

\* Mutant: the WHERE clause without its similarity floor.
AboveThresholdAlways(sim, threshold) == TRUE

\* 1 - (embedding <=> $1::vector) >= $2
AboveThreshold(sim, threshold) == sim >= threshold

\* if tool_name_filter: query += " AND tool_name = $3"
MatchesFilter(tool_name, filter) == filter = NoneV \/ tool_name = filter.v

\* The rows of vanna_tool_memory the WHERE clause of search_similar_usage
\* lets through.
UsageCandidates(q, threshold, filter) ==
    { i \in AllRows(toolMemory) :
        /\ toolMemory[i].success
        /\ AboveThreshold(Similarity(toolMemory[i].embedding, Embed(q)), threshold)
        /\ MatchesFilter(toolMemory[i].tool_name, filter) }

\* The values search_similar_usage can return; `row` is a ghost field, the
\* insertion number of the row a result was made from.
search_similar_usage(q, limit, threshold, filter) ==
    { [k \in 1..Len(o) |->
          [memory |-> [question |-> toolMemory[o[k]].question,
                       tool_name |-> toolMemory[o[k]].tool_name,
                       args |-> toolMemory[o[k]].args],
           similarity_score |-> Similarity(toolMemory[o[k]].embedding, Embed(q)),
           rank |-> k - 1,
           row |-> o[k]]] :
      o \in SelectNearest(UsageCandidates(q, threshold, filter), toolMemory,
                          Embed(q), limit) }

\* The values get_context_for_question(question) can return.
get_context_for_question(q) ==
    { [ddl |-> d, documentation |-> c, sql_examples |-> e] :
        d \in search_ddl(q, DdlLimit),
        c \in search_documentation(q, DocLimit),
        e \in search_sql_examples(q, ExampleLimit) }

\* How many times a call of get_context_for_question that got through its
\* first n searches has called embedding_service.embed: each search embeds
\* the question itself.
EmbedsOfSearches(n) == n

\* The three searches of get_context_for_question, in order.
ContextSearches == <<"search_ddl", "search_documentation", "search_sql_examples">>

MemRet(op, args, raised, value, embeds) ==
    [op |-> op, args |-> args, raised |-> raised, value |-> value, embeds |-> embeds]

\* The call before this one, kept when both are get_context_for_question
\* calls for the same question (no write, then, came in between).
Previous(op, args) ==
    IF op = "get_context_for_question" /\ memRet.op = op /\ memRet.args = args
       /\ ~memRet.raised
    THEN memRet ELSE NoMemRet

\* Rows written to vanna_tool_memory and vanna_text_memory so far.
MemoryWrites == Len(toolMemory) + Len(tables.vanna_text_memory)

MemReadFrame == UNCHANGED <<tables, toolMemory>>

MemFrame ==
    UNCHANGED <<handler, pc, question, user_context, user, context, response,
                tcIdx, sql, result, escaped, raisedBy, execLog, llmCalls,
                embedCalls, saveCalls, okExecs, nRequests, req_conversation_id,
                conversation_id, conversation_history, storeVars, ret, runnerVars, extraVars>>

\* A read of the memory: it returns one of `values`, or its k-th embedding
\* call or its k-th query raises (of `searches` searches).
MemRead(op, args, values, searches) ==
    /\ \/ \E v \in values :
            memRet' = MemRet(op, args, FALSE, v, EmbedsOfSearches(searches))
       \/ \E k \in 1..searches :
            memRet' = MemRet(op, args, TRUE, NoneV, EmbedsOfSearches(k))
    /\ memPrev' = Previous(op, args)
    /\ MemReadFrame
    /\ MemFrame

MemGetContext ==
    \E q \in Questions :
        MemRead("get_context_for_question", [question |-> q],
                get_context_for_question(q), Len(ContextSearches))

MemSearchDdl ==
    \E q \in Questions, limit \in SearchLimits :
        MemRead("search_ddl", [question |-> q, limit |-> limit],
                search_ddl(q, limit), 1)

MemSearchDocumentation ==
    \E q \in Questions, limit \in SearchLimits :
        MemRead("search_documentation", [question |-> q, limit |-> limit],
                search_documentation(q, limit), 1)

MemSearchSqlExamples ==
    \E q \in Questions, limit \in SearchLimits :
        MemRead("search_sql_examples", [question |-> q, limit |-> limit],
                search_sql_examples(q, limit), 1)

MemSearchSimilarUsage ==
    \E q \in Questions, limit \in SearchLimits, th \in Thresholds,
       f \in ToolNameFilters :
        MemRead("search_similar_usage",
                [question |-> q, limit |-> limit, similarity_threshold |-> th,
                 tool_name_filter |-> f],
                search_similar_usage(q, limit, th, f), 1)

\* save_tool_usage(question, tool_name, args, context, success): the row is
\* inserted, or the embedding call or the INSERT raises.
MemSaveToolUsage ==
    /\ MemoryWrites < MaxMemoryWrites
    /\ \E q \in Questions, tool \in ToolNames, ok \in BOOLEAN :
         \/ /\ toolMemory' = Append(toolMemory,
                                [ToolMemoryRow(q, tool, Sql1, "alice") EXCEPT !.success = ok])
            /\ memRet' = MemRet("save_tool_usage", [question |-> q], FALSE, NoneV, 1)
         \/ /\ toolMemory' = toolMemory
            /\ memRet' = MemRet("save_tool_usage", [question |-> q], TRUE, NoneV, 1)
    /\ memPrev' = NoMemRet
    /\ UNCHANGED tables
    /\ UNCHANGED <<handler, pc, question, user_context, user, context, response,
                   tcIdx, sql, result, escaped, raisedBy, execLog, llmCalls,
                   embedCalls, saveCalls, okExecs, nRequests, req_conversation_id,
                   conversation_id, conversation_history, storeVars, ret, runnerVars, extraVars>>

\* save_text_memory(content, context): INSERT INTO vanna_text_memory
MemSaveTextMemory ==
    /\ MemoryWrites < MaxMemoryWrites
    /\ tables' = [tables EXCEPT !.vanna_text_memory =
                     Append(@, [content |-> Q1, embedding |-> Embed(Q1)])]
    /\ memRet' = MemRet("save_text_memory", [content |-> Q1], FALSE, NoneV, 1)
    /\ memPrev' = NoMemRet
    /\ UNCHANGED toolMemory
    /\ MemFrame

\* A context handed to _build_system_prompt: what get_context_for_question
\* returned, or any other mapping with these keys (n items under each).
ContextOfSize(n) ==
    [ddl |-> [i \in 1..n.ddl |-> i], documentation |-> [i \in 1..n.doc |-> i],
     sql_examples |-> [i \in 1..n.ex |-> [question |-> i, sql |-> i, similarity |-> 10 - i]]]

BuildSystemPrompt ==
    /\ \E c \in {ContextOfSize(n) : n \in Loads \cup {[ddl |-> 0, doc |-> 0, ex |-> 0]}}
              \cup (IF memRet.op = "get_context_for_question" /\ ~memRet.raised
                    THEN {memRet.value} ELSE {}) :
         memRet' = MemRet("_build_system_prompt", [context |-> c], FALSE,
                          build_system_prompt(c), 0)
    /\ memPrev' = NoMemRet
    /\ MemReadFrame
    /\ MemFrame

InitMem ==
    /\ handler = "memory"
    /\ InitLocals
    /\ InitStore
    /\ pool = "open"
    /\ lastRun = NoRun
    /\ \E n \in Loads : tables = TablesOf(n)
    /\ memRet = NoMemRet
    /\ memPrev = NoMemRet
    /\ InitExtra

NextMem ==
    \/ MemGetContext
    \/ MemSearchDdl
    \/ MemSearchDocumentation
    \/ MemSearchSqlExamples
    \/ MemSearchSimilarUsage
    \/ MemSaveToolUsage
    \/ MemSaveTextMemory
    \/ BuildSystemPrompt

SpecMem == InitMem /\ [][NextMem]_vars

----------------------------------------------------------------------------
(* The chart and insights tools: tools/chart_generation_tool.py,
   tools/insights_generation_tool.py *)

\* A text is a sequence of tokens.  FENCE_JSON is the three backquotes
\* followed by json, FENCE the three backquotes alone, ws a run of
\* whitespace, word a run of letters; a token ending in a colon is a quoted
\* key with its colon, a token in quotes a JSON string.
JsonKeys == {"series:", "type:", "title:", "summary:", "findings:", "suggestions:"}
JsonScalars == {"'line'", "'s'", "7", "null"}
Fences == {"FENCE", "FENCE_JSON"}

JInt(n) == [kind |-> "int", v |-> n]
JList(items) == [kind |-> "list", items |-> items]
JDict(items) == [kind |-> "dict", items |-> items]

ScalarValue(tok) ==
    IF tok = "'line'" THEN Str(<<"line">>)
    ELSE IF tok = "'s'" THEN Str(<<"s">>)
    ELSE IF tok = "7" THEN JInt(7)
    ELSE NoneV

KeyName(tok) ==
    IF tok = "series:" THEN "series"
    ELSE IF tok = "type:" THEN "type"
    ELSE IF tok = "title:" THEN "title"
    ELSE IF tok = "summary:" THEN "summary"
    ELSE IF tok = "findings:" THEN "findings"
    ELSE "suggestions"

\* str.find / str.rfind of a token of S: its index, 0 when there is none
FirstIdx(text, S) ==
    IF \E i \in 1..Len(text) : text[i] \in S
    THEN CHOOSE i \in 1..Len(text) :
            text[i] \in S /\ \A j \in 1..(i - 1) : text[j] \notin S
    ELSE 0

LastIdx(text, S) ==
    IF \E i \in 1..Len(text) : text[i] \in S
    THEN CHOOSE i \in 1..Len(text) :
            text[i] \in S /\ \A j \in (i + 1)..Len(text) : text[j] \notin S
    ELSE 0

\* text.split(sep)[0] and text.split(sep)[1], sep a token of S present in text
SplitFirst(text, S) ==
    IF FirstIdx(text, S) = 0 THEN text ELSE SubSeq(text, 1, FirstIdx(text, S) - 1)

SplitSecond(text, S) ==
    SplitFirst(SubSeq(text, FirstIdx(text, S) + 1, Len(text)), S)

\* str.strip()
StripWs(text) ==
    IF \A i \in 1..Len(text) : text[i] = "ws" THEN <<>>
    ELSE SubSeq(text,
                CHOOSE i \in 1..Len(text) :
                    text[i] # "ws" /\ \A j \in 1..(i - 1) : text[j] = "ws",
                CHOOSE i \in 1..Len(text) :
                    text[i] # "ws" /\ \A j \in (i + 1)..Len(text) : text[j] = "ws")

\* if "```json" in text: text.split("```json")[1].split("```")[0].strip()
\* elif "```" in text: text.split("```")[1].split("```")[0].strip()
\* (the three backquotes are a substring of both fence tokens)
StripFence(text) ==
    IF FirstIdx(text, {"FENCE_JSON"}) # 0
    THEN StripWs(SplitFirst(SplitSecond(text, {"FENCE_JSON"}), Fences))
    ELSE IF FirstIdx(text, Fences) # 0
    THEN StripWs(SplitFirst(SplitSecond(text, Fences), Fences))
    ELSE text

\* if not text.startswith("{"): text[text.find("{"):text.rfind("}")+1]
\* when both are found
ObjectBounds(text) ==
    IF text # <<>> /\ text[1] = "{" THEN text
    ELSE IF FirstIdx(text, {"{"}) # 0 /\ LastIdx(text, {"}"}) # 0
    THEN SubSeq(text, FirstIdx(text, {"{"}), LastIdx(text, {"}"}))
    ELSE text

Parsed(v, i) == [ok |-> TRUE, v |-> v, i |-> i]
NotParsed == [ok |-> FALSE, v |-> NoneV, i |-> 0]

\* the first index from i on that holds no whitespace
SkipWs(text, i) ==
    IF \E j \in i..Len(text) : text[j] # "ws"
    THEN CHOOSE j \in i..Len(text) :
            text[j] # "ws" /\ \A k \in i..(j - 1) : text[k] = "ws"
    ELSE Len(text) + 1

TokenAt(text, i) == IF i \in 1..Len(text) THEN text[i] ELSE "eof"

RECURSIVE ParseValue(_, _)
RECURSIVE ParseMembers(_, _, _)
RECURSIVE ParseElements(_, _, _)

\* json decoder: the members of an object after its opening brace
ParseMembers(text, i, acc) ==
    LET k == SkipWs(text, i)
        r == ParseValue(text, k + 1)
        j == SkipWs(text, r.i)
        items == Append(acc, [key |-> KeyName(TokenAt(text, k)), value |-> r.v])
    IN  IF TokenAt(text, k) \notin JsonKeys THEN NotParsed
        ELSE IF ~r.ok THEN NotParsed
        ELSE IF TokenAt(text, j) = "," THEN ParseMembers(text, j + 1, items)
        ELSE IF TokenAt(text, j) = "}" THEN Parsed(JDict(items), j + 1)
        ELSE NotParsed

\* json decoder: the elements of an array after its opening bracket
ParseElements(text, i, acc) ==
    LET r == ParseValue(text, i)
        j == SkipWs(text, r.i)
        items == Append(acc, r.v)
    IN  IF ~r.ok THEN NotParsed
        ELSE IF TokenAt(text, j) = "," THEN ParseElements(text, j + 1, items)
        ELSE IF TokenAt(text, j) = "]" THEN Parsed(JList(items), j + 1)
        ELSE NotParsed

\* json decoder: one value from index i on
ParseValue(text, i) ==
    LET k == SkipWs(text, i)
        tok == TokenAt(text, k)
    IN  IF tok = "{"
        THEN IF TokenAt(text, SkipWs(text, k + 1)) = "}"
             THEN Parsed(JDict(<<>>), SkipWs(text, k + 1) + 1)
             ELSE ParseMembers(text, k + 1, <<>>)
        ELSE IF tok = "["
        THEN IF TokenAt(text, SkipWs(text, k + 1)) = "]"
             THEN Parsed(JList(<<>>), SkipWs(text, k + 1) + 1)
             ELSE ParseElements(text, k + 1, <<>>)
        ELSE IF tok \in JsonScalars THEN Parsed(ScalarValue(tok), k + 1)
        ELSE NotParsed

\* json.loads(text): ok is FALSE where it raises JSONDecodeError
json_loads(text) ==
    LET r == ParseValue(text, 1)
    IN  IF r.ok /\ SkipWs(text, r.i) > Len(text) THEN r ELSE NotParsed

\* key in d, d.get(key, default) and d.setdefault(key, default) of a dict
HasKey(d, key) == \E i \in 1..Len(d.items) : d.items[i].key = key

DictGet(d, key, default) ==
    IF HasKey(d, key)
    THEN d.items[CHOOSE i \in 1..Len(d.items) :
                    d.items[i].key = key
                    /\ \A j \in (i + 1)..Len(d.items) : d.items[j].key # key].value
    ELSE default

SetDefault(d, key, default) ==
    IF HasKey(d, key) THEN d
    ELSE JDict(Append(d.items, [key |-> key, value |-> default]))

\* bool(v) and whether len(v) is defined, for a decoded JSON value
JTruthy(v) ==
    IF v.kind = "None" THEN FALSE
    ELSE IF v.kind = "int" THEN v.v # 0
    ELSE IF v.kind = "str" THEN v.v # <<>>
    ELSE v.items # <<>>

Sized(v) == v.kind \in {"list", "dict", "str"}

ToolResult(success, data, error) ==
    [success |-> success, data |-> data, error |-> error]

Returns(v) == [raised |-> FALSE, exc |-> <<>>, value |-> v]
Raises(exc) == [raised |-> TRUE, exc |-> exc, value |-> NoneV]

\* What llm_service.generate does: it raises, or returns a dict with or
\* without a 'content'.
SeriesLine == <<"{", "series:", "[", "{", "type:", "'line'", "}", "]", "}">>
InsightsFull ==
    <<"{", "summary:", "'s'", ",", "findings:", "[", "'s'", "]", ",",
      "suggestions:", "[", "]", "}">>

LlmContents ==
    { SeriesLine,
      <<"FENCE_JSON", "ws">> \o SeriesLine \o <<"ws", "FENCE">>,
      <<"FENCE", "ws">> \o SeriesLine \o <<"ws", "FENCE">>,
      <<"word", "ws">> \o SeriesLine \o <<"ws", "word">>,
      <<"[">> \o SeriesLine \o <<"]">>,
      <<"word">>,
      <<>>,
      <<"7">>,
      <<"[", "7", "]">>,
      <<"{", "title:", "'s'", "}">>,
      <<"{", "series:", "[", "]", "}">>,
      <<"{", "series:", "null", "}">>,
      <<"{", "series:", "[", "{", "}", "]", "}">>,
      <<"{", "series:", "{", "type:", "'line'", "}", "}">>,
      <<"{", "series:", "[", "7", "]", "}">>,
      <<"{", "series:", "7", "}">>,
      <<"{", "series:", "[", "{", "type:", "'line'", "}", "]">>,
      InsightsFull,
      <<"FENCE_JSON", "ws">> \o InsightsFull \o <<"ws", "FENCE">>,
      <<"word", "ws">> \o InsightsFull,
      <<"{", "summary:", "'s'", "}">>,
      <<"{", "findings:", "7", "}">>,
      <<"{", "}">> }

LlmOutcomes ==
    { [kind |-> "raise", has_content |-> FALSE, content |-> <<>>],
      [kind |-> "dict", has_content |-> FALSE, content |-> <<>>] }
    \cup { [kind |-> "dict", has_content |-> TRUE, content |-> c] : c \in LlmContents }

\* response.get("content", "")
ContentOf(llm) == IF llm.has_content THEN llm.content ELSE <<>>

\* _parse_chart_config(text)
_parse_chart_config(text) ==
    LET r == json_loads(ObjectBounds(StripWs(StripFence(text))))
    IN  IF ~r.ok THEN Raises(<<"JSONDecodeError">>)
        ELSE IF r.v.kind # "dict"
        THEN Raises(<<"Chart config is not a valid object">>)
        ELSE IF ~HasKey(r.v, "series")
        THEN Raises(<<"Chart config missing 'series' field">>)
        ELSE Returns(r.v)

\* detected_chart_type = "bar"
\* if chart_config.get("series") and len(chart_config["series"]) > 0:
\*     detected_chart_type = chart_config["series"][0].get("type", "bar")
DetectedChartType(chart_config) ==
    LET series == DictGet(chart_config, "series", NoneV)
    IN  IF ~JTruthy(series) THEN Returns(Str(<<"bar">>))
        ELSE IF ~Sized(series) THEN Raises(<<"TypeError">>)
        ELSE IF series.kind = "dict" THEN Raises(<<"0">>)
        ELSE IF series.kind = "str" THEN Raises(<<"AttributeError">>)
        ELSE IF series.items[1].kind # "dict" THEN Raises(<<"AttributeError">>)
        ELSE Returns(DictGet(series.items[1], "type", Str(<<"bar">>)))

\* The try block of ChartGenerationTool.execute; serialisable is whether
\* json.dumps accepts the rows of data (_build_user_prompt).
ChartTry(serialisable, llm) ==
    LET parsed == _parse_chart_config(ContentOf(llm))
        detected == DetectedChartType(parsed.value)
    IN  IF ~serialisable THEN Raises(<<"TypeError">>)
        ELSE IF llm.kind = "raise" THEN Raises(<<"LLM error">>)
        ELSE IF parsed.raised THEN parsed
        ELSE IF detected.raised THEN detected
        ELSE Returns(ToolResult(TRUE,
                                 [chart_config |-> parsed.value,
                                  chart_type |-> detected.value],
                                 NoneV))

\* ChartGenerationTool.execute: except Exception as e -> success=False,
\* error=str(e)
chart_execute(serialisable, llm) ==
    LET body == ChartTry(serialisable, llm)
    IN  IF body.raised THEN Returns(ToolResult(FALSE, NoneV, Str(body.exc)))
        ELSE body

\* Whether the call reached llm_service.generate.
ChartCallsLlm(serialisable, llm) == serialisable

\* The dataset argument of the insights tool and the DataFrame pandas makes
\* of it: a dict with 'rows' and 'columns' ("table"), another dict
\* ("mapping"), a DataFrame ("frame") or anything else ("other"); the
\* constructor raises on rows that do not fit the columns.
MaxDataRows == 3
MaxDataCols == 1

Datasets ==
    [kind : {"table", "mapping", "frame"}, rows : 0..MaxDataRows,
     cols : 0..MaxDataCols, fits : {TRUE}, str_names : BOOLEAN]
    \cup [kind : {"table", "mapping"}, rows : 1..MaxDataRows,
          cols : 0..MaxDataCols, fits : {FALSE}, str_names : {TRUE}]
    \cup [kind : {"other"}, rows : {0}, cols : {0}, fits : {TRUE}, str_names : {TRUE}]

\* _dataset_to_dataframe(dataset)
_dataset_to_dataframe(dataset) ==
    IF dataset.kind = "other" THEN Returns([rows |-> 0, cols |-> 0, str_names |-> TRUE])
    ELSE IF dataset.kind # "frame" /\ ~dataset.fits THEN Raises(<<"ValueError">>)
    ELSE Returns([rows |-> dataset.rows, cols |-> dataset.cols,
                   str_names |-> dataset.str_names])

\* df.empty
Empty(df) == df.rows = 0 \/ df.cols = 0

EmptyInsights(message) ==
    JDict(<<[key |-> "summary", value |-> Str(<<message>>)],
            [key |-> "findings", value |-> JList(<<>>)],
            [key |-> "suggestions", value |-> JList(<<>>)]>>)

FindingChars == 500

\* _parse_insights_response(content)
_parse_insights_response(content) ==
    LET text == ObjectBounds(StripFence(StripWs(content)))
        r == json_loads(text)
    IN  IF ~r.ok
        THEN JDict(<<[key |-> "summary", value |-> Str(<<"Analysis generated">>)],
                     [key |-> "findings",
                      value |-> IF text # <<>>
                                THEN JList(<<Str(Take(text, FindingChars))>>)
                                ELSE JList(<<>>)],
                     [key |-> "suggestions", value |-> JList(<<>>)]>>)
        ELSE IF r.v.kind # "dict" THEN EmptyInsights("Invalid response format")
        ELSE SetDefault(SetDefault(SetDefault(r.v,
                 "summary", Str(<<"Analysis complete">>)),
                 "findings", JList(<<>>)),
                 "suggestions", JList(<<>>))

\* Whether InsightsGenerationTool.execute reaches llm_service.generate: the
\* DataFrame was built, holds two rows or more, and the prompt was built
\* (", ".join(column_names) takes strings only).
InsightsCallsLlm(dataset) ==
    LET df == _dataset_to_dataframe(dataset)
    IN  /\ ~df.raised
        /\ ~Empty(df.value)
        /\ df.value.rows # 1
        /\ df.value.str_names

\* Mutant: the except clause of execute reports the failure.
InsightsExceptReportingFailure(exc) == ToolResult(FALSE, NoneV, Str(exc))

\* except Exception as e: success=True, data = the empty insights
InsightsExcept(exc) ==
    ToolResult(TRUE, EmptyInsights("Unable to generate insights"), NoneV)

\* InsightsGenerationTool.execute(context, dataset, question); memory_raises
\* is whether agent_memory.get_context_for_question raises (it is caught).
insights_execute(dataset, memory_raises, llm) ==
    LET df == _dataset_to_dataframe(dataset)
        insights == _parse_insights_response(ContentOf(llm))
    IN  IF df.raised THEN InsightsExcept(df.exc)
        ELSE IF Empty(df.value)
        THEN ToolResult(TRUE, EmptyInsights("No data returned from query"), NoneV)
        ELSE IF df.value.rows = 1
        THEN ToolResult(TRUE,
                 EmptyInsights("Single record returned, no patterns to analyze"),
                 NoneV)
        ELSE IF ~df.value.str_names THEN InsightsExcept(<<"TypeError">>)
        ELSE IF llm.kind = "raise" THEN InsightsExcept(<<"LLM error">>)
        ELSE IF ~Sized(DictGet(insights, "findings", JList(<<>>)))
        THEN InsightsExcept(<<"TypeError">>)
        ELSE ToolResult(TRUE, insights, NoneV)

ToolFrame == UNCHANGED <<agentVars, storeVars, ret, runnerVars, memoryVars, concVars>>

\* The calls: the tool, its arguments and what its collaborators will do.
ToolCalls ==
    { [tool |-> "generate_insights", dataset |-> dataset,
       memory_raises |-> memory_raises, llm |-> llm] :
      dataset \in Datasets, memory_raises \in BOOLEAN, llm \in LlmOutcomes }
    \cup { [tool |-> "generate_chart", serialisable |-> serialisable, llm |-> llm] :
           serialisable \in BOOLEAN, llm \in LlmOutcomes }

InsightsExecute ==
    /\ toolCall.tool = "generate_insights"
    /\ toolRet = NoToolRet
    /\ toolRet' = [tool |-> "generate_insights", raised |-> FALSE,
                   result |-> insights_execute(toolCall.dataset,
                                               toolCall.memory_raises, toolCall.llm),
                   llm_calls |-> IF InsightsCallsLlm(toolCall.dataset) THEN 1 ELSE 0]
    /\ UNCHANGED toolCall
    /\ ToolFrame

ChartExecute ==
    /\ toolCall.tool = "generate_chart"
    /\ toolRet = NoToolRet
    /\ LET r == chart_execute(toolCall.serialisable, toolCall.llm)
       IN  toolRet' = [tool |-> "generate_chart", raised |-> r.raised,
                       result |-> r.value,
                       llm_calls |-> IF ChartCallsLlm(toolCall.serialisable,
                                                      toolCall.llm)
                                     THEN 1 ELSE 0]
    /\ UNCHANGED toolCall
    /\ ToolFrame

InitTools ==
    /\ handler = "tools"
    /\ InitLocals
    /\ InitStore
    /\ pool = "open"
    /\ lastRun = NoRun
    /\ tables = LoadedTables
    /\ memRet = NoMemRet
    /\ memPrev = NoMemRet
    /\ toolCall \in ToolCalls
    /\ toolRet = NoToolRet
    /\ InitSessions

NextTools ==
    \/ InsightsExecute
    \/ ChartExecute

SpecTools == InitTools /\ [][NextTools]_vars

----------------------------------------------------------------------------
(* Requests running side by side: save_message and save_tool_usage called
   on connections of their own from the two pools (max_size 10 each, more
   than the requests here).  The database is PostgreSQL at READ COMMITTED:
   a statement that meets a row another open transaction wrote waits for
   that transaction to end; a SERIAL hands out each number once. *)

MaxCalls == 3
ConcConvIds == {"c1"}

\* the user of the request that runs as session s
SessionUser(s) == IF s = 1 THEN "alice" ELSE "bob"

\* calls begun so far; the next call is numbered one more
CallsBegun ==
    Cardinality(completed) + Cardinality({s \in Sessions : sessions[s].pc # "idle"})

\* Another open transaction holds the lock of conversations row cid.
RowLocked(s, cid) ==
    \E o \in Sessions \ {s} :
        /\ sessions[o].pc \in {"upserted", "inserted"}
        /\ sessions[o].conversation_id = cid

\* Mutant: a plain INSERT INTO conversations, without the ON CONFLICT clause.
InsertEffect(existing) == IF existing = NoRow THEN "insert" ELSE "raise"

\* INSERT INTO conversations ... ON CONFLICT (id) DO UPDATE SET updated_at = NOW()
UpsertEffect(existing) == IF existing = NoRow THEN "insert" ELSE "update"

Outcome(s, outcome) ==
    [call |-> sessions[s].call, op |-> sessions[s].op, session |-> s,
     conversation_id |-> sessions[s].conversation_id, outcome |-> outcome]

\* the call of session s returns (outcome "ok") or raises
Complete(s, outcome) ==
    /\ completed' = completed \cup {Outcome(s, outcome)}
    /\ sessions' = [sessions EXCEPT ![s] = IdleSession]

ConcFrame ==
    UNCHANGED <<handler, pc, question, user_context, user, context, response,
                tcIdx, sql, result, escaped, raisedBy, execLog, llmCalls,
                embedCalls, saveCalls, okExecs, nRequests, req_conversation_id,
                conversation_id, conversation_history, now, ret, runnerVars,
                memoryVars, toolVars>>

\* save_message: async with self.pool.acquire() as conn:
\*                   async with conn.transaction():
ConcBeginSaveMessage(s) ==
    /\ sessions[s].pc = "idle"
    /\ CallsBegun < MaxCalls
    /\ \E cid \in ConcConvIds :
         sessions' = [sessions EXCEPT ![s] =
                         [IdleSession EXCEPT !.pc = "tx", !.op = "save_message",
                                             !.call = CallsBegun + 1,
                                             !.conversation_id = cid]]
    /\ UNCHANGED <<completed, conversations, messages, nextMsgId, toolMemory>>
    /\ ConcFrame

\* the upsert of the conversation row; it waits while the row is locked
ConcUpsert(s) ==
    /\ sessions[s].pc = "tx"
    /\ ~RowLocked(s, sessions[s].conversation_id)
    /\ IF UpsertEffect(conversations[sessions[s].conversation_id]) = "raise"
       THEN Complete(s, "unique_violation")
       ELSE /\ sessions' = [sessions EXCEPT
                   ![s].pc = "upserted",
                   ![s].inserts =
                       (UpsertEffect(conversations[sessions[s].conversation_id])
                          = "insert"),
                   ![s].t = now]
            /\ UNCHANGED completed
    /\ UNCHANGED <<conversations, messages, nextMsgId, toolMemory>>
    /\ ConcFrame

\* INSERT INTO conversation_messages: id is the next value of the SERIAL
ConcInsertMessage(s) ==
    /\ sessions[s].pc = "upserted"
    /\ sessions' = [sessions EXCEPT ![s].pc = "inserted", ![s].msg_id = nextMsgId]
    /\ nextMsgId' = nextMsgId + 1
    /\ UNCHANGED <<completed, conversations, messages, toolMemory>>
    /\ ConcFrame

\* leaving conn.transaction(): COMMIT makes both rows visible
ConcCommit(s) ==
    /\ sessions[s].pc = "inserted"
    /\ conversations' =
         IF sessions[s].inserts
         THEN [conversations EXCEPT ![sessions[s].conversation_id] =
                  NewRow(SessionUser(s), sessions[s].t)]
         ELSE [conversations EXCEPT ![sessions[s].conversation_id].updated_at =
                  sessions[s].t]
    /\ messages' = Append(messages,
                      MessageRow(sessions[s].msg_id, sessions[s].conversation_id,
                                 Message("user", MsgContents[sessions[s].call], 0),
                                 SessionUser(s)))
    /\ Complete(s, "ok")
    /\ UNCHANGED <<nextMsgId, toolMemory>>
    /\ ConcFrame

\* the connection is lost inside the transaction: ROLLBACK, the call raises
ConcAbort(s) ==
    /\ sessions[s].pc \in {"tx", "upserted", "inserted"}
    /\ Complete(s, "connection_lost")
    /\ UNCHANGED <<conversations, messages, nextMsgId, toolMemory>>
    /\ ConcFrame

\* save_tool_usage: embedding = await self.embedding_service.embed(question)
ConcBeginSaveToolUsage(s) ==
    /\ sessions[s].pc = "idle"
    /\ CallsBegun < MaxCalls
    /\ sessions' = [sessions EXCEPT ![s] =
                       [IdleSession EXCEPT !.pc = "embedded",
                                           !.op = "save_tool_usage",
                                           !.call = CallsBegun + 1]]
    /\ UNCHANGED <<completed, conversations, messages, nextMsgId, toolMemory>>
    /\ ConcFrame

\* save_tool_usage: INSERT INTO vanna_tool_memory, a statement of its own
ConcInsertToolUsage(s) ==
    /\ sessions[s].pc = "embedded"
    /\ \/ /\ toolMemory' = Append(toolMemory,
                              ToolMemoryRow(MsgContents[sessions[s].call], "run_sql",
                                            Q1, SessionUser(s)))
          /\ Complete(s, "ok")
       \/ /\ UNCHANGED toolMemory
          /\ Complete(s, "connection_lost")
    /\ UNCHANGED <<conversations, messages, nextMsgId>>
    /\ ConcFrame

InitConc ==
    /\ handler = "concurrent"
    /\ InitLocals
    /\ InitStore
    /\ InitComponents

NextConc ==
    \E s \in Sessions :
        \/ ConcBeginSaveMessage(s)
        \/ ConcUpsert(s)
        \/ ConcInsertMessage(s)
        \/ ConcCommit(s)
        \/ ConcAbort(s)
        \/ ConcBeginSaveToolUsage(s)
        \/ ConcInsertToolUsage(s)

SpecConc == InitConc /\ [][NextConc]_vars

----------------------------------------------------------------------------
(* Properties of process_question and of the main_vanna2 handler *)

AgentDone == handler = "agent" /\ pc = "done"

ResultKeys == {"question", "sql", "results", "explanation", "error"}

LastExec == execLog[Len(execLog)]

\* The calls inside save_tool_usage, and the call itself, that can raise.
SaveRaisers == {"save_call", "memory_embedding", "memory_insert"}

\* C1: process_question never raises: whatever its collaborators do, it
\* returns a mapping with the keys question, sql, results, explanation and
\* error, and when a collaborator raised, error is not None.
C1_NeverRaises ==
    AgentDone =>
        /\ ~escaped
        /\ ResultKeys \subseteq DOMAIN result
        /\ (raisedBy # "" => result.error # NoneV)

\* A run in which json.loads raised and the error was returned as a value.
C1_Witness ==
    /\ AgentDone
    /\ raisedBy = "json"
    /\ result.error = Str(<<"JSONDecodeError">>)

\* C2: save_tool_usage is invoked only after a run_sql result without
\* 'error' (in process_question and in the main_vanna2 handler), so the
\* inserts into the tool memory never outnumber the error-free executions.
C2_SaveOnlyAfterSuccess ==
    /\ saveCalls <= okExecs
    /\ Len(toolMemory) <= okExecs
    /\ (pc = "save" => execLog # <<>> /\ ~HasError(LastExec.result))

\* A request whose first execution failed and whose second succeeded: the
\* write-back was invoked once, for the second.
C2_Witness ==
    /\ pc = "done"
    /\ Len(execLog) = 2
    /\ HasError(execLog[1].result)
    /\ ~HasError(execLog[2].result)
    /\ saveCalls = 1

\* C3: whenever process_question obtained an error-free run_sql result, a
\* row {question, "run_sql", {sql}, user id, success = true} is in the tool
\* memory when the response is returned (the embedding service and the
\* store accepting the write).
C3_SuccessMemorised ==
    (AgentDone /\ raisedBy \notin {"memory_embedding", "memory_insert", "sql_runner"}) =>
        \A i \in 1..Len(execLog) :
            ~HasError(execLog[i].result) =>
                \E k \in 1..Len(toolMemory) :
                    toolMemory[k] = ToolMemoryRow(question, "run_sql", execLog[i].sql, user)

\* C4: if the execution succeeded and save_tool_usage then raises, the
\* response still carries the sql and the successful results, error = None.
C4_WriteFailureNonFatal ==
    (pc = "done" /\ raisedBy \in SaveRaisers) =>
        /\ ResultKeys \subseteq DOMAIN result
        /\ result.sql = Str(LastExec.sql)
        /\ result.results = LastExec.result
        /\ result.error = NoneV

\* C5: for a response with no tool call whose text holds no SQL statement
\* (the prescribed refusals), process_question returns sql = None,
\* explanation = the text, and run_sql is not invoked.
C5_RefusalRunsNothing ==
    (AgentDone /\ raisedBy = "" /\ response.tool_calls = <<>>
               /\ response.content \in {RefusalText, OutOfScopeText}) =>
        /\ execLog = <<>>
        /\ result.sql = NoneV
        /\ result.explanation = Str(response.content)

\* C6: whenever a SQL string was obtained (tool call or free text) and its
\* execution returned an error, the response carries the attempted sql and a
\* top-level error equal to the execution error.
C6_PartialSuccessSurfaced ==
    (AgentDone /\ raisedBy = "" /\ execLog # <<>> /\ HasError(LastExec.result)) =>
        /\ result.sql = Str(LastExec.sql)
        /\ result.error = Str(LastExec.result.error)

\* A response is malformed when the arguments of its run_sql tool call are
\* not valid JSON, or when it has no tool call and its text, not JSON,
\* embeds no SQL.
MalformedResponse(resp) ==
    \/ /\ resp.tool_calls # <<>>
       /\ resp.tool_calls[1].name = "run_sql"
       /\ resp.tool_calls[1].arguments = ArgsInvalid
    \/ /\ resp.tool_calls = <<>>
       /\ resp.content = OutOfScopeText

\* C7: for every malformed LLM output process_question does not raise and
\* returns sql = None and explanation = the content the model returned.
C7_MalformedContained ==
    (AgentDone /\ llmCalls = 1 /\ raisedBy \in {"", "json"}
               /\ MalformedResponse(response)) =>
        /\ ~escaped
        /\ result.sql = NoneV
        /\ result.explanation = Str(response.content)

\* C8: when the first execution of a question returns an error, the
\* orchestrator makes exactly one retry (a second LLM round, then the
\* execution of the corrected SQL) and never a third attempt.
C8_ExactlyOneRetry ==
    (AgentDone /\ raisedBy = "" /\ execLog # <<>> /\ HasError(execLog[1].result)) =>
        /\ llmCalls = 2
        /\ Len(execLog) = 2

----------------------------------------------------------------------------
(* Properties of the conversation store *)

\* The existing conversations that user uid did not create.
ForeignIds(uid) ==
    {c \in AllConvIds : conversations[c] # NoRow /\ conversations[c].created_by # uid}

\* C9: a conversation created by user A cannot be read by another user B,
\* whatever save_message, update_conversation and delete_conversation calls
\* were made: get_conversation(id, B) returns None, get_recent_messages(id,
\* B, limit) returns [] and list_conversations(B) does not contain it.
C9_ReadIsolation ==
    /\ \A uid \in StoreUsers : \A c \in ForeignIds(uid) :
          /\ get_conversation(c, uid) = {NoneV}
          /\ \A limit \in ReadLimits : get_recent_messages(c, uid, limit) = {<<>>}
          /\ \A limit \in ReadLimits : \A l \in list_conversations(uid, limit) :
                \A i \in 1..Len(l) : l[i].id # c
    /\ (ret.op = "get_conversation" /\ ret.conversation_id \in ForeignIds(ret.user_id))
          => ret.value = NoneV
    /\ (ret.op = "get_recent_messages" /\ ret.conversation_id \in ForeignIds(ret.user_id))
          => ret.value = <<>>
    /\ ret.op = "list_conversations"
          => \A i \in 1..Len(ret.value) : ret.value[i].id \notin ForeignIds(ret.user_id)

\* User B, having saved a message under the id of a conversation that A
\* created, asks for that conversation and is told there is none.
C9_Witness ==
    /\ ret.op = "get_conversation"
    /\ ret.conversation_id \in ForeignIds(ret.user_id)
    /\ ret.value = NoneV
    /\ \E i \in 1..Len(messages) :
          /\ messages[i].conversation_id = ret.conversation_id
          /\ messages[i].saved_by = ret.user_id

\* C10: writes are scoped by owner: a save_message by a user who does not
\* own the existing conversation adds no message to it, so every message of
\* a conversation was saved by a call made with the owner.
C10_WritesScopedByOwner ==
    \A i \in 1..Len(messages) :
        messages[i].saved_by = conversations[messages[i].conversation_id].user_id

\* The conversation exists and was created by user uid.
CreatedBy(cid, uid) ==
    conversations[cid] # NoRow /\ conversations[cid].created_by = uid

\* C11: deletion is owner-only and cascades.  A delete_conversation(id, B) by
\* a user who is not the owner, or of an id that does not exist, returns
\* False and leaves conversations and messages as they were; a
\* delete_conversation(id, A) by the owner returns True, after which
\* get_conversation(id, A) returns None and no stored message carries the id.
C11_DeleteOwnerOnlyCascades ==
    [][\A cid \in StoreConvIds, uid \in StoreUsers :
          (ret'.op = "delete_conversation" /\ ret'.conversation_id = cid
                                           /\ ret'.user_id = uid) =>
              IF CreatedBy(cid, uid)
              THEN /\ ret'.value = TRUE
                   /\ get_conversation(cid, uid)' = {NoneV}
                   /\ \A i \in 1..Len(messages') : messages'[i].conversation_id # cid
              ELSE /\ ret'.value = FALSE
                   /\ conversations' = conversations
                   /\ messages' = messages]_vars

\* The owner deleted a conversation into which messages had been saved: the
\* call returned True, the row is gone and so are the messages.
C11_Witness ==
    /\ ret.op = "delete_conversation"
    /\ ret.value = TRUE
    /\ nextMsgId > 2
    /\ conversations[ret.conversation_id] = NoRow
    /\ messages = <<>>

----------------------------------------------------------------------------
(* Properties of PostgresSqlRunner.run_sql *)

\* The statement is a SELECT / has a LIMIT clause.
IsSelect(s) == StartsWithSelect(s)
HasLimitClause(s) == Contains(s, LimitKeywords)

LimitClauses(s) == {i \in 1..Len(s) : s[i] \in LimitKeywords}

\* The text ends with the clause LIMIT <cap>, and no semicolon stands before
\* it (the clause is part of the statement).
EndsWithCap(s, limit) ==
    /\ Len(s) >= 3
    /\ SubSeq(s, Len(s) - 2, Len(s)) = <<"LIMIT", " ", ToString(limit)>>
    /\ ~Contains(s, {";"})

\* C12: of a run_sql call with a cap, the SQL sent to the database holds
\* exactly one LIMIT clause, equal to the cap and validly placed, when the
\* statement is a SELECT without LIMIT clause; otherwise (a SELECT with a
\* LIMIT clause, or no SELECT) the SQL is sent unchanged.
C12_LimitInjection ==
    (lastRun.called /\ lastRun.sent # NoneV /\ lastRun.limit # 0) =>
        IF IsSelect(lastRun.sql.v) /\ ~HasLimitClause(lastRun.sql.v)
        THEN /\ Cardinality(LimitClauses(lastRun.sent.v)) = 1
             /\ EndsWithCap(lastRun.sent.v, lastRun.limit)
        ELSE lastRun.sent = lastRun.sql

\* C13: run_sql never raises to its caller: it returns a mapping, which has
\* an 'error' key exactly when the execution failed, then with columns = [],
\* rows = [] and row_count = 0; without 'error', row_count is the number of
\* rows returned.
C13_RunSqlNeverRaises ==
    lastRun.called =>
        /\ ~lastRun.out.raised
        /\ {"columns", "rows", "row_count"} \subseteq DOMAIN lastRun.out.value
        /\ HasError(lastRun.out.value) <=> lastRun.failed
        /\ HasError(lastRun.out.value) =>
              /\ lastRun.out.value.columns = <<>>
              /\ lastRun.out.value.rows = <<>>
              /\ lastRun.out.value.row_count = 0
        /\ ~HasError(lastRun.out.value) =>
              lastRun.out.value.row_count = Len(lastRun.out.value.rows)

\* run_sql called on a runner whose pool was never initialised: the
\* AttributeError came back as a mapping with 'error'.
C13_Witness ==
    /\ lastRun.called
    /\ pool = "None"
    /\ lastRun.sql # NoneV
    /\ ~lastRun.out.raised
    /\ lastRun.out.value = ErrorResult(<<"AttributeError">>)

----------------------------------------------------------------------------
(* Properties of PgVectorAgentMemory and of the prompt assembly *)

Returned(op) == memRet.op = op /\ ~memRet.raised

\* C14: get_context_for_question returns at most 10 DDL items, at most 5
\* documentation items and at most 5 SQL examples, whatever the tables hold;
\* and the prompt built from any context holds at most 3 example pairs, the
\* first 3 of the context, and at most 10 DDL entries.
C14_TopKCap ==
    /\ Returned("get_context_for_question") =>
          /\ Len(memRet.value.ddl) <= 10
          /\ Len(memRet.value.documentation) <= 5
          /\ Len(memRet.value.sql_examples) <= 5
    /\ Returned("_build_system_prompt") =>
          /\ Len(memRet.value.sql_examples) <= 3
          /\ memRet.value.sql_examples = Take(memRet.args.context.sql_examples, 3)
          /\ Len(memRet.value.ddl) <= 10

\* The prompt was built from a context retrieved from tables of more than 10
\* DDL rows and more than 5 examples: the context holds 10 and 5 of them,
\* the prompt 3 of the examples.
C14_Witness ==
    /\ Returned("_build_system_prompt")
    /\ Len(tables.vanna_ddl) > 10
    /\ Len(tables.vanna_sql_examples) > 5
    /\ Len(memRet.args.context.ddl) = 10
    /\ Len(memRet.args.context.sql_examples) = 5
    /\ Len(memRet.value.sql_examples) = 3

\* The rows (by insertion number) a search returned, in the order returned,
\* and the table they come from.
ReturnedRows ==
    IF memRet.op = "search_sql_examples"
    THEN [k \in 1..Len(memRet.value) |-> memRet.value[k].question]
    ELSE IF memRet.op = "search_similar_usage"
    THEN [k \in 1..Len(memRet.value) |-> memRet.value[k].row]
    ELSE memRet.value

SearchedTable ==
    IF memRet.op = "search_ddl" THEN tables.vanna_ddl
    ELSE IF memRet.op = "search_documentation" THEN tables.vanna_documentation
    ELSE IF memRet.op = "search_sql_examples" THEN tables.vanna_sql_examples
    ELSE toolMemory

SearchOps ==
    {"search_ddl", "search_documentation", "search_sql_examples", "search_similar_usage"}

\* C15: each of the four searches returns its items in descending order of
\* similarity to the question, items of equal similarity in insertion order.
C15_RankedBySimilarity ==
    (memRet.op \in SearchOps /\ ~memRet.raised) =>
        \A j, k \in 1..Len(ReturnedRows) :
            j < k =>
                LET sj == Similarity(SearchedTable[ReturnedRows[j]].embedding,
                                     Embed(memRet.args.question))
                    sk == Similarity(SearchedTable[ReturnedRows[k]].embedding,
                                     Embed(memRet.args.question))
                IN  sj > sk \/ (sj = sk /\ ReturnedRows[j] < ReturnedRows[k])

C17_RetrievalIdempotent ==
    /\ [][memRet'.op = "get_context_for_question" =>
              tables' = tables /\ toolMemory' = toolMemory]_vars
    /\ [](  (Returned("get_context_for_question")
             /\ memPrev.op = "get_context_for_question")
          => memRet.value = memPrev.value)

\* C18: a call of get_context_for_question calls the embedding service
\* exactly once.
C18_OneEmbeddingPerQuestion ==
    Returned("get_context_for_question") => memRet.embeds = 1

----------------------------------------------------------------------------
(* Properties of the entry points and of retrieval failures *)

EntryPoints == {"main", "query", "full"}

\* C19: on every /api/query entry point a request whose question is empty or
\* white space only is rejected (HTTP 400) before the user resolver, the
\* conversation store, the embedding service, the LLM or the SQL runner is
\* called.
C19_EmptyQuestionRejected ==
    (pc \in {"return", "done"} /\ handler \in EntryPoints /\ Strip(question) = <<>>) =>
        /\ result = HttpException(400, <<"Question cannot be empty">>)
        /\ user = ""
        /\ llmCalls = 0
        /\ embedCalls = 0
        /\ execLog = <<>>
        /\ (nRequests = 1 => messages = <<>>)

\* The searches of this request that returned.
SearchesDone == {k \in DOMAIN context : context[k] # <<>>}

\* C20: when the embedding call or one of the three vector searches raises
\* during process_question, the response has an error and sql = results =
\* None, the failing search was made once, and neither the LLM nor the SQL
\* runner nor save_tool_usage is invoked for the question.
C20_RetrievalFailureFailsRequest ==
    /\ (AgentDone /\ raisedBy \in {"embedding", "vector_search"}) =>
          /\ ~escaped
          /\ result.error # NoneV
          /\ result.sql = NoneV
          /\ result.results = NoneV
          /\ embedCalls = Cardinality(SearchesDone) + 1
          /\ llmCalls = 0
          /\ execLog = <<>>
    /\ (handler = "agent" /\ pc = "save") => (execLog # <<>> /\ llmCalls = 1)

\* The second search of a question raised in the database: the first search
\* had returned, the third was never made, and the error is in the response.
C20_Witness ==
    /\ AgentDone
    /\ raisedBy = "vector_search"
    /\ embedCalls = 2
    /\ SearchesDone = {"search_ddl"}
    /\ result.error = Str(<<"PostgresError">>)

----------------------------------------------------------------------------
(* Properties of the course of one request *)

\* C23: a process_question call invokes the LLM at most once and executes
\* SQL at most twice, whatever the response of the model carries.
C23_BoundedExecution ==
    handler = "agent" =>
        /\ llmCalls <= 1
        /\ Len(execLog) <= 2

\* C24: process_question does not wait for save_tool_usage: it is never at
\* the write-back with its response still to be returned.
C24_WriteBackNotAwaited ==
    ~(handler = "agent" /\ pc = "save")

\* The handlers that run the pipeline retrieval, LLM, execution, write-back.
PipelineHandlers == {"agent", "query"}

\* C25: within one request the LLM is not called before the three
\* similarity searches have returned, run_sql is not called before the LLM
\* response was received and a SQL string taken from it, and save_tool_usage
\* is not called before the run_sql result it records was returned.
C25_PipelineOrder ==
    handler \in PipelineHandlers =>
        /\ (llmCalls > 0 \/ pc = "llm") =>
              /\ SearchesDone = {"search_ddl", "search_documentation", "search_sql_examples"}
              /\ embedCalls >= 3
        /\ (pc = "run_sql" \/ execLog # <<>>) =>
              /\ llmCalls = 1
              /\ response \in Responses
              /\ sql # <<>>
        /\ pc = "run_sql" =>
              result.sql = Str(sql)
        /\ pc = "save" =>
              /\ execLog # <<>>
              /\ LastExec.sql = sql
              /\ ~HasError(LastExec.result)
              /\ result.results = LastExec.result

\* The write-back of a request is about to be made: the three searches, the
\* LLM call and the execution it records are behind it.
C25_Witness ==
    /\ handler = "agent"
    /\ pc = "save"
    /\ embedCalls = 3
    /\ llmCalls = 1
    /\ Len(execLog) = 1
    /\ LastExec.result = OkResult

\* The response carries tool calls, all of them run_sql calls with a SQL
\* string in well-formed arguments.
AllRunSql(resp) ==
    /\ resp.tool_calls # <<>>
    /\ \A i \in 1..Len(resp.tool_calls) :
          /\ resp.tool_calls[i].name = "run_sql"
          /\ resp.tool_calls[i].arguments.j = "object"
          /\ Truthy(resp.tool_calls[i].arguments.sql)

\* C28: for a response with run_sql tool calls, the response returned has a
\* top-level error if and only if its results carry 'error', and its sql is
\* the SQL whose execution produced those results.
C28_ErrorResultConsistency ==
    (AgentDone /\ llmCalls = 1 /\ AllRunSql(response) /\ raisedBy # "sql_runner") =>
        /\ result.error # NoneV <=> (result.results # NoneV /\ HasError(result.results))
        /\ result.results = LastExec.result
        /\ result.sql = Str(LastExec.sql)

\* C30: after a request to the main_vanna2 handler has completed, with a
\* response or with a failure, every user message in the stored history is
\* followed by an assistant message of the same conversation.
C30_LogPairing ==
    (handler = "query" /\ pc \in {"done", "idle"}) =>
        \A i \in 1..Len(messages) :
            messages[i].role = "user" =>
                /\ i < Len(messages)
                /\ messages[i + 1].role = "assistant"
                /\ messages[i + 1].conversation_id = messages[i].conversation_id

----------------------------------------------------------------------------
(* Further properties of the conversation store *)

RECURSIVE Appended(_, _)
\* The messages appended to conversation cid, in the order of their appending.
Appended(cid, i) ==
    IF i > Len(messages) THEN <<>>
    ELSE IF messages[i].conversation_id = cid
    THEN <<ToMessage(messages[i])>> \o Appended(cid, i + 1)
    ELSE Appended(cid, i + 1)

\* The last n elements of a sequence.
LastN(seq, n) == SubSeq(seq, IF Len(seq) > n THEN Len(seq) - n + 1 ELSE 1, Len(seq))

\* C26: get_conversation returns the messages of a conversation in the order
\* in which they were appended, and get_recent_messages(limit) the last
\* min(limit, n) of them in that order, whatever their timestamps.
C26_MessageOrder ==
    \A cid \in StoreConvIds, uid \in StoreUsers :
        Owns(cid, uid) =>
            /\ \A c \in get_conversation(cid, uid) : c.messages = Appended(cid, 1)
            /\ \A limit \in ReadLimits :
                  \A r \in get_recent_messages(cid, uid, limit) :
                      r = LastN(Appended(cid, 1), limit)

\* C29: every stored message references an existing conversation, every
\* stored conversation has at least one message, and the user_id of a
\* conversation is the one it was created with, after any sequence of
\* save_message (failed ones included), update_conversation and
\* delete_conversation calls.
C29_ReferentialInvariant ==
    /\ \A i \in 1..Len(messages) : conversations[messages[i].conversation_id] # NoRow
    /\ \A c \in AllConvIds :
          conversations[c] # NoRow =>
              /\ \E i \in 1..Len(messages) : messages[i].conversation_id = c
              /\ conversations[c].user_id = conversations[c].created_by

\* A conversation was deleted with its messages and created anew by a message
\* of the other user, and its metadata was updated since.
C29_Witness ==
    /\ ret.op = "update_conversation"
    /\ nextMsgId > 2
    /\ Len(messages) = 1
    /\ conversations[messages[1].conversation_id].metadata = "{k}"
    /\ messages[1].id = 2

----------------------------------------------------------------------------
(* Properties of the chart and insights tools *)

InsightsKeys == {"summary", "findings", "suggestions"}

\* C21: InsightsGenerationTool.execute never reports failure: whatever the
\* dataset and whatever the LLM does, the result has success = True and its
\* data has the keys summary, findings and suggestions; when the LLM call
\* raises, summary is "Unable to generate insights" and findings is empty;
\* for a dataset of 0 or 1 rows the LLM is not called.
C21_InsightsNeverFail ==
    toolRet.tool = "generate_insights" =>
        /\ ~toolRet.raised
        /\ toolRet.result.success = TRUE
        /\ \A k \in InsightsKeys : HasKey(toolRet.result.data, k)
        /\ (toolRet.llm_calls = 1 /\ toolCall.llm.kind = "raise") =>
              /\ DictGet(toolRet.result.data, "summary", NoneV)
                    = Str(<<"Unable to generate insights">>)
              /\ DictGet(toolRet.result.data, "findings", NoneV) = JList(<<>>)
        /\ toolCall.dataset.rows <= 1 => toolRet.llm_calls = 0

\* A dataset of two rows, and the LLM call raised.
C21_Witness ==
    /\ toolRet.tool = "generate_insights"
    /\ toolCall.dataset.rows = 2
    /\ toolRet.llm_calls = 1
    /\ toolCall.llm.kind = "raise"
    /\ toolRet.result.success = TRUE
    /\ DictGet(toolRet.result.data, "summary", NoneV)
          = Str(<<"Unable to generate insights">>)

\* The type of the first series of a chart configuration, 'bar' by default.
FirstSeriesType(chart_config) ==
    LET series == DictGet(chart_config, "series", NoneV)
    IN  IF series.kind = "list" /\ series.items # <<>>
           /\ series.items[1].kind = "dict"
        THEN DictGet(series.items[1], "type", Str(<<"bar">>))
        ELSE Str(<<"bar">>)

\* C22: ChartGenerationTool.execute never raises; when the LLM call raises
\* or its output, fence and surrounding text stripped, is not a JSON object
\* with a 'series' field, the result has success = False and a non-null
\* error; otherwise success = True, chart_config is the parsed object and
\* chart_type is the type of the first series, 'bar' by default.
C22_ChartParseFailuresAsValues ==
    (toolRet.tool = "generate_chart" /\ toolRet.llm_calls = 1) =>
        /\ ~toolRet.raised
        /\ IF toolCall.llm.kind = "raise"
              \/ _parse_chart_config(ContentOf(toolCall.llm)).raised
           THEN /\ toolRet.result.success = FALSE
                /\ toolRet.result.error # NoneV
           ELSE /\ toolRet.result.success = TRUE
                /\ toolRet.result.data.chart_config
                      = _parse_chart_config(ContentOf(toolCall.llm)).value
                /\ toolRet.result.data.chart_type
                      = FirstSeriesType(toolRet.result.data.chart_config)

----------------------------------------------------------------------------
(* Properties of requests running side by side *)

StoredMessages(call) ==
    {i \in 1..Len(messages) : messages[i].content = MsgContents[call]}

StoredUsages(call) ==
    {i \in 1..Len(toolMemory) : toolMemory[i].question = MsgContents[call]}

\* C27: Concurrent appends are safe: however save_message calls on the same
\* conversation id (new or existing) and save_tool_usage calls of
\* concurrent requests interleave, no call fails because of another, the
\* conversation has its one row once a message of it is stored, and every
\* message and every memory record of a call that returned is stored
\* exactly once (of a call that lost its connection: not at all), with no
\* row that no call wrote and no message id used twice.
C27_ConcurrentAppendsSafe ==
    /\ \A c \in completed :
         /\ c.outcome \in {"ok", "connection_lost"}
         /\ c.op = "save_message" =>
              /\ Cardinality(StoredMessages(c.call))
                   = (IF c.outcome = "ok" THEN 1 ELSE 0)
              /\ StoredUsages(c.call) = {}
              /\ c.outcome = "ok" => conversations[c.conversation_id] # NoRow
         /\ c.op = "save_tool_usage" =>
              /\ Cardinality(StoredUsages(c.call))
                   = (IF c.outcome = "ok" THEN 1 ELSE 0)
              /\ StoredMessages(c.call) = {}
    /\ \A i \in 1..Len(messages) :
         /\ \E c \in completed :
              c.op = "save_message" /\ c.outcome = "ok" /\ i \in StoredMessages(c.call)
         /\ \A j \in 1..Len(messages) : messages[i].id = messages[j].id => i = j
    /\ \A i \in 1..Len(toolMemory) :
         \E c \in completed :
            c.op = "save_tool_usage" /\ c.outcome = "ok" /\ i \in StoredUsages(c.call)

\* Two requests saved a message to the new conversation c1, the one that
\* began second committing first, and a third call saved a tool usage.
C27_Witness ==
    /\ Len(messages) = 2
    /\ messages[1].conversation_id = "c1" /\ messages[2].conversation_id = "c1"
    /\ messages[1].saved_by # messages[2].saved_by
    /\ messages[1].content = MsgContents[2]
    /\ messages[2].content = MsgContents[1]
    /\ Len(toolMemory) = 1
    /\ Cardinality(completed) = 3

====
